---- MODULE Spec2Model ----
(***************************************************************************)
(* scatac_fragment_tools: the split/merge driver                           *)
(* (library/split/split_fragments_by_cell_type.py), the coverage engine    *)
(* (library/bigwig/fragments_to_bigwig.py) and the command line entry      *)
(* point (cli/main.py) as state machines.                                  *)
(*                                                                         *)
(* A path is a sequence of components, a component a sequence of tokens    *)
(* (single characters, or a fixed word such as the file suffix), so that   *)
(* the filename sanitizer works on characters.                             *)
(***************************************************************************)
EXTENDS Integers, Sequences, FiniteSets, TLC

\* ------------------------------------------------------------------ bounds
\* Fragment records over all input fragment files of one split run.
MaxFrags == 2
\* (sample, cell type) entries of the annotation of one split run.
MaxTypes == 2
\* Largest n_cpu.
MaxCpu == 2
\* Largest start coordinate of a fragment in a split input.
MaxStart == 1

\* The split driver.
VARIABLES
    sample_to_fragment_file,
    sample_to_cell_type_to_cell_barcodes,
    n_cpu,
    clear_temp_folder,
    pc,
    error,
    dirs,
    files,
    split_state,
    split_args,
    cell_type_to_fragment_files,
    merge_state,
    merge_args,
    removed,
    written

\* The command line entry point.
VARIABLES
    sys_argv,
    inputs_ok,
    cli_pc,
    exit_status,
    called,
    help_printed

cli_vars == <<sys_argv, inputs_ok, cli_pc, exit_status, called, help_printed>>

\* The coverage generator.
VARIABLES
    fragments_df,
    normalize,
    scaling_factor,
    cut_sites,
    cov_pc,
    chrom_arrays,
    n_fragments,
    per_chrom_fragments_dfs,
    depth_i,
    rpm_scaling_factor,
    compact_i,
    yielded

cov_vars == <<fragments_df, normalize, scaling_factor, cut_sites, cov_pc, chrom_arrays,
              n_fragments, per_chrom_fragments_dfs, depth_i, rpm_scaling_factor,
              compact_i, yielded>>

\* One call of collapse_consecutive_values.
VARIABLES
    depth_array,
    collapse_result,
    collapse_pc

collapse_vars == <<depth_array, collapse_result, collapse_pc>>

\* Two calls of fragments_to_bw, one after the other, on the same arguments
\* except for the writer's name.
VARIABLES
    bigwig_writers,
    bw_call,
    bw_pc,
    bw_opened,
    bw_header,
    bw_entries,
    bw_consumed,
    bw_offset,
    bw_log

bw_vars == <<bigwig_writers, bw_call, bw_pc, bw_opened, bw_header, bw_entries,
             bw_consumed, bw_offset, bw_log>>

\* One call of read_fragments_to_polars_df.
VARIABLES
    bed_lines,
    bed_columns,
    read_pc,
    bed_df_pl,
    fragments_df_pl

read_vars == <<bed_lines, bed_columns, read_pc, bed_df_pl, fragments_df_pl>>

\* One call of a command function of cli/commands.py: the name of the
\* command, the input paths of its arguments that exist, the inputs it has
\* read so far and whether the bigwig file was written.
VARIABLES
    cmd,
    existing,
    cmd_pc,
    cmd_error,
    inputs_read,
    bigwig_written

cmd_vars == <<cmd, existing, cmd_pc, cmd_error, inputs_read, bigwig_written>>

\* The loading of a chromosome sizes file by a command: the lines of the
\* file, the command that loads it, and the mapping it builds.
VARIABLES
    sizes_lines,
    sizes_cmd,
    sizes_pc,
    sizes_error,
    chrom_sizes_dict

sizes_vars == <<sizes_lines, sizes_cmd, sizes_pc, sizes_error, chrom_sizes_dict>>

\* The variables of the components that are run on their own.
lib_vars == <<collapse_vars, bw_vars, read_vars, cmd_vars, sizes_vars>>

driver_vars == <<sample_to_fragment_file, sample_to_cell_type_to_cell_barcodes,
                 n_cpu, clear_temp_folder, pc, error, dirs, files, split_state,
                 split_args, cell_type_to_fragment_files, merge_state,
                 merge_args, removed, written>>

\* ------------------------------------------------------------ sequences
Range(s) == {s[i] : i \in 1..Len(s)}

SeqsUpTo(S, n) == UNION {[1..k -> S] : k \in 0..n}

RECURSIVE Flatten(_)
Flatten(ss) == IF ss = <<>> THEN <<>> ELSE Head(ss) \o Flatten(Tail(ss))

IndexOf(s, x) == CHOOSE i \in 1..Len(s) : s[i] = x

Count(s, x) == Cardinality({i \in 1..Len(s) : s[i] = x})

Without(f, p) == [q \in (DOMAIN f) \ {p} |-> f[q]]

\* --------------------------------------------------------------- paths
Suffix == ".fragments.tsv.gz"

\* os.path.join(folder, name)
Join(folder, name) == Append(folder, name)

\* str.startswith on a path: the folder's components lead the path's.
StartsWith(path, folder) ==
    /\ Len(folder) <= Len(path)
    /\ \A i \in 1..Len(folder) : path[i] = folder[i]

\* str.endswith on a path: the last token of the last component.
EndsWith(path, word) ==
    /\ path # <<>>
    /\ path[Len(path)] # <<>>
    /\ path[Len(path)][Len(path[Len(path)])] = word

\* str.replace(old, new) for single characters
Replace(s, old, new) == [i \in 1..Len(s) |-> IF s[i] = old THEN new ELSE s[i]]

_santize_string_for_filename_space_only(s) == Replace(s, " ", "_")

_santize_string_for_filename(s) == Replace(Replace(s, " ", "_"), "/", "_")

\* ------------------------------------------------------------ the inputs
path_to_temp_folder == << <<"tmp">> >>

path_to_output_folder == << <<"out">> >>

path_to_input_folder == << <<"data">> >>

\* chromsizes: an ordered mapping chromosome -> size
chromsizes == << [chrom |-> "chr1", size |-> 3], [chrom |-> "chr2", size |-> 2] >>

ChromNames == {chromsizes[i].chrom : i \in 1..Len(chromsizes)}

ChromRank(c) == CHOOSE i \in 1..Len(chromsizes) : chromsizes[i].chrom = c

\* Chromosomes of the input files, in the order the (sorted) files hold them.
FileChroms == <<"chr1", "chr2", "chrX">>

Barcodes == <<"BC1", "BC2">>

BcRank(b) == IndexOf(Barcodes, b)

Samples == << <<"A">>, <<"B">> >>

CellTypeNames == { <<"T">>, <<"T", " ", "1">>, <<"T", "/", "1">> }

BarcodeSets == { {"BC1"}, {"BC2"} }

\* Fragment records of the split inputs: 1-bp steps on chr1, one position on
\* the other chromosomes, one record on the chromosome outside chromsizes.
FragPool ==
    {r \in [chrom : Range(FileChroms), start : 0..MaxStart,
            end : 1..(MaxStart + 1), barcode : Range(Barcodes)] :
        /\ r.end = r.start + 1
        /\ (r.chrom # "chr1" => r.start = 0)
        /\ (r.chrom = "chrX" => r.barcode = "BC1")}

\* (chrom, start, end, barcode) order of a sorted fragment file
FileKey(r) == <<IndexOf(FileChroms, r.chrom), r.start, r.end, BcRank(r.barcode)>>

LexLess(a, b) ==
    \E i \in 1..Len(a) :
        /\ a[i] < b[i]
        /\ \A j \in 1..(i - 1) : a[j] = b[j]

LexLeq(a, b) == a = b \/ LexLess(a, b)

TaggedKey(t) == <<IndexOf(Samples, t.sample)>> \o FileKey(t.rec)

\* All the ways to hand at most MaxFrags records to the samples' sorted files.
FragmentChoices ==
    {s \in SeqsUpTo([sample : Range(Samples), rec : FragPool], MaxFrags) :
        \A i \in 1..(Len(s) - 1) : LexLeq(TaggedKey(s[i]), TaggedKey(s[i + 1]))}

RecordsOf(tagged, sample) ==
    LET Mine(t) == t.sample = sample
        mine == SelectSeq(tagged, Mine)
    IN  [i \in 1..Len(mine) |-> mine[i].rec]

\* All annotations of at most MaxTypes (sample, cell type) entries, each
\* (sample, cell type) once, a sample's cell types in any order.
AnnotationChoices ==
    {s \in SeqsUpTo([sample : Range(Samples), cell_type : CellTypeNames,
                     barcodes : BarcodeSets], MaxTypes) :
        /\ \A i, j \in 1..Len(s) :
              (i # j) => <<s[i].sample, s[i].cell_type>> # <<s[j].sample, s[j].cell_type>>
        /\ \A i \in 1..(Len(s) - 1) :
              IndexOf(Samples, s[i].sample) <= IndexOf(Samples, s[i + 1].sample)}

CellTypesOf(entries, sample) ==
    LET Mine(e) == e.sample = sample
        mine == SelectSeq(entries, Mine)
    IN  [i \in 1..Len(mine) |->
            [cell_type |-> mine[i].cell_type, barcodes |-> mine[i].barcodes]]

FragmentFilePath(sample) == Join(path_to_input_folder, sample \o <<Suffix>>)

\* ------------------------------------------------------- ordered dicts
SampleKeys(d) == {d[i].sample : i \in 1..Len(d)}

FragmentFileOf(sample) ==
    sample_to_fragment_file[CHOOSE i \in 1..Len(sample_to_fragment_file) :
                                sample_to_fragment_file[i].sample = sample].path

CellTypeDictOf(sample) ==
    sample_to_cell_type_to_cell_barcodes[
        CHOOSE i \in 1..Len(sample_to_cell_type_to_cell_barcodes) :
            sample_to_cell_type_to_cell_barcodes[i].sample = sample].cell_types

AnnotatedSamples ==
    [i \in 1..Len(sample_to_cell_type_to_cell_barcodes) |->
        sample_to_cell_type_to_cell_barcodes[i].sample]

DictKeys(d) == [i \in 1..Len(d) |-> d[i].key]

DictGet(d, k) == d[CHOOSE i \in 1..Len(d) : d[i].key = k].paths

NoError == [kind |-> "none", path |-> <<>>]

\* ------------------------------------------- the per-sample splitter (S1)
\* The file the splitter writes for a cell type in the folder it is given.
SplitterPath(folder, cell_type) ==
    Join(folder, _santize_string_for_filename(cell_type) \o <<Suffix>>)

\* The records of one input kept for a barcode set, in input order; each
\* carries the shard it is written to (to tell the shards apart after a merge).
SplitRecords(content, barcodes, shard) ==
    LET Keep(r) == r.chrom \in ChromNames /\ r.barcode \in barcodes
        kept == SelectSeq(content, Keep)
    IN  [i \in 1..Len(kept) |->
            [chrom |-> kept[i].chrom, start |-> kept[i].start, end |-> kept[i].end,
             barcode |-> kept[i].barcode, shard |-> shard]]

SplitTargets(args) ==
    {SplitterPath(args.path_to_output_folder, args.cell_type_to_cell_barcodes[i].cell_type) :
        i \in 1..Len(args.cell_type_to_cell_barcodes)}

SplitContent(args, fs, i) ==
    SplitRecords(fs[args.path_to_fragments],
                 args.cell_type_to_cell_barcodes[i].barcodes,
                 SplitterPath(args.path_to_output_folder,
                              args.cell_type_to_cell_barcodes[i].cell_type))

\* Writers are opened on the first record written: a cell type without a
\* record leaves no file.
SplitWriters(args, fs, p) ==
    {i \in 1..Len(args.cell_type_to_cell_barcodes) :
        /\ SplitterPath(args.path_to_output_folder,
                        args.cell_type_to_cell_barcodes[i].cell_type) = p
        /\ SplitContent(args, fs, i) # <<>>}

SplitWritten(args, fs) == {p \in SplitTargets(args) : SplitWriters(args, fs, p) # {}}

\* Two cell types of one sample with the same file name write the same file:
\* which writer's records it ends up with is not defined; pick chooses.
SplitPicks(args, fs) ==
    {pick \in [SplitWritten(args, fs) -> 1..Len(args.cell_type_to_cell_barcodes)] :
        \A p \in SplitWritten(args, fs) : pick[p] \in SplitWriters(args, fs, p)}

split_fragments_by_cell_barcode(args, fs, pick) ==
    [p \in (DOMAIN fs) \cup SplitWritten(args, fs) |->
        IF p \in SplitWritten(args, fs) THEN SplitContent(args, fs, pick[p]) ELSE fs[p]]

\* --------------------------------------------- the cell-type merger (S2)
MergeKey(r) == <<r.start, r.end, BcRank(r.barcode)>>

\* k-way merge on the head records, ties to the shard supplied first
RECURSIVE KWayMerge(_)
KWayMerge(lists) ==
    LET live == {i \in 1..Len(lists) : lists[i] # <<>>}
    IN  IF live = {} THEN <<>>
        ELSE LET best == CHOOSE i \in live : \A j \in live :
                            \/ LexLess(MergeKey(Head(lists[i])), MergeKey(Head(lists[j])))
                            \/ /\ MergeKey(Head(lists[i])) = MergeKey(Head(lists[j]))
                               /\ i <= j
             IN  <<Head(lists[best])>> \o KWayMerge([lists EXCEPT ![best] = Tail(@)])

OnChrom(content, c) ==
    LET Here(r) == r.chrom = c
    IN  SelectSeq(content, Here)

merge_fragment_files(path_to_fragment_files, fs) ==
    Flatten([c \in 1..Len(chromsizes) |->
        KWayMerge([i \in 1..Len(path_to_fragment_files) |->
            OnChrom(fs[path_to_fragment_files[i]], chromsizes[c].chrom)])])

\* --------------------------------------------------------- the driver
\* os.path.join(path_to_temp_folder, sample)
SampleFolder_shared(sample) == path_to_temp_folder

SampleFolder(sample) == Join(path_to_temp_folder, sample)

\* The arguments of one split task.
SplitTaskArgs(sample) ==
    [path_to_fragments |-> FragmentFileOf(sample),
     path_to_output_folder |-> SampleFolder(sample),
     cell_type_to_cell_barcodes |-> CellTypeDictOf(sample)]

\* os.path.join(path_to_temp_folder, sample, f"{cell_type_sanitized}.fragments.tsv.gz")
ShardPath(sample, cell_type_sanitized) ==
    Join(Join(path_to_temp_folder, sample), cell_type_sanitized \o <<Suffix>>)

DictPrepend(d, k, p) ==
    IF k \in Range(DictKeys(d))
    THEN [d EXCEPT ![IndexOf(DictKeys(d), k)].paths = <<p>> \o @]
    ELSE Append(d, [key |-> k, paths |-> <<p>>])

\* cell_type_to_fragment_files[cell_type_sanitized].append(path_to_fragment_file)
DictAppend(d, k, p) ==
    IF k \in Range(DictKeys(d))
    THEN [d EXCEPT ![IndexOf(DictKeys(d), k)].paths = Append(@, p)]
    ELSE Append(d, [key |-> k, paths |-> <<p>>])

\* The (sample, cell type) pairs in the order the check loop visits them.
ShardPairs ==
    Flatten([i \in 1..Len(sample_to_cell_type_to_cell_barcodes) |->
        [j \in 1..Len(sample_to_cell_type_to_cell_barcodes[i].cell_types) |->
            [sample |-> sample_to_cell_type_to_cell_barcodes[i].sample,
             cell_type |-> sample_to_cell_type_to_cell_barcodes[i].cell_types[j].cell_type]]])

ShardExists_unchecked(path, fs) == TRUE

\* os.path.exists(path_to_fragment_file)
ShardExists(path, fs) == path \in DOMAIN fs

\* The shard check: stops at the first shard that does not exist.
RECURSIVE CollectShards(_, _, _)
CollectShards(pairs, fs, d) ==
    IF pairs = <<>> THEN [ok |-> TRUE, dict |-> d, path |-> <<>>]
    ELSE LET cell_type_sanitized == _santize_string_for_filename(Head(pairs).cell_type)
             path_to_fragment_file == ShardPath(Head(pairs).sample, cell_type_sanitized)
         IN  IF ~ShardExists(path_to_fragment_file, fs)
             THEN [ok |-> FALSE, dict |-> d, path |-> path_to_fragment_file]
             ELSE CollectShards(Tail(pairs), fs,
                                DictAppend(d, cell_type_sanitized, path_to_fragment_file))

\* os.path.join(path_to_output_folder, f"{cell_type}.fragments.tsv.gz"), merge task
MergeOutputPath(cell_type) == Join(path_to_output_folder, cell_type \o <<Suffix>>)

\* The arguments of one merge task.
MergeTaskArgs(cell_type) ==
    [path_to_fragment_files |-> DictGet(cell_type_to_fragment_files, cell_type),
     path_to_output_file |-> MergeOutputPath(cell_type)]

\* The output path whose existence is checked after the merge.
CheckedOutputPath(cell_type) ==
    Join(path_to_output_folder, _santize_string_for_filename(cell_type) \o <<Suffix>>)

ClearRequested_always == TRUE

\* if clear_temp_folder:
ClearRequested == clear_temp_folder

\* The cleanup loop: os.remove raises on a path that is gone.
RECURSIVE RemoveAll(_, _, _)
RemoveAll(paths, fs, rem) ==
    IF paths = <<>> THEN [ok |-> TRUE, files |-> fs, removed |-> rem, path |-> <<>>]
    ELSE IF ~(StartsWith(Head(paths), path_to_temp_folder) /\ EndsWith(Head(paths), Suffix))
         THEN RemoveAll(Tail(paths), fs, rem)
         ELSE IF Head(paths) \notin DOMAIN fs
              THEN [ok |-> FALSE, files |-> fs, removed |-> rem, path |-> Head(paths)]
              ELSE RemoveAll(Tail(paths), Without(fs, Head(paths)), Append(rem, Head(paths)))

Running(state) == {k \in DOMAIN state : state[k] = "running"}

Failed(state) == {k \in DOMAIN state : state[k] = "failed"}

\* joblib hands out the tasks in order: the first one not yet started.
NextPending(keys, state) ==
    {k \in Range(keys) : /\ state[k] = "pending"
                         /\ \A i \in 1..(IndexOf(keys, k) - 1) : state[keys[i]] # "pending"}

\* The state of a component that is not running.
DriverIdle ==
    /\ sample_to_fragment_file = <<>>
    /\ sample_to_cell_type_to_cell_barcodes = <<>>
    /\ n_cpu = 1
    /\ clear_temp_folder = FALSE
    /\ pc = "idle"
    /\ error = NoError
    /\ dirs = {}
    /\ files = <<>>
    /\ split_state = <<>>
    /\ split_args = <<>>
    /\ cell_type_to_fragment_files = <<>>
    /\ merge_state = <<>>
    /\ merge_args = <<>>
    /\ removed = <<>>
    /\ written = {}

CliIdle ==
    /\ sys_argv = <<>>
    /\ inputs_ok = TRUE
    /\ cli_pc = "idle"
    /\ exit_status = -1
    /\ called = "none"
    /\ help_printed = "none"

One == [num |-> 1, den |-> 1]

CovIdle ==
    /\ fragments_df = <<>>
    /\ normalize = FALSE
    /\ scaling_factor = One
    /\ cut_sites = FALSE
    /\ cov_pc = "idle"
    /\ chrom_arrays = <<>>
    /\ n_fragments = 0
    /\ per_chrom_fragments_dfs = <<>>
    /\ depth_i = 0
    /\ rpm_scaling_factor = One
    /\ compact_i = 0
    /\ yielded = <<>>

CollapseIdle ==
    /\ depth_array = <<>>
    /\ collapse_result = <<>>
    /\ collapse_pc = "idle"

BwIdle ==
    /\ bigwig_writers = <<>>
    /\ bw_call = 0
    /\ bw_pc = "idle"
    /\ bw_opened = FALSE
    /\ bw_header = <<>>
    /\ bw_entries = <<>>
    /\ bw_consumed = 0
    /\ bw_offset = 0
    /\ bw_log = <<>>

ReadIdle ==
    /\ bed_lines = <<>>
    /\ bed_columns = 0
    /\ read_pc = "idle"
    /\ bed_df_pl = <<>>
    /\ fragments_df_pl = <<>>

CmdIdle ==
    /\ cmd = "none"
    /\ existing = {}
    /\ cmd_pc = "idle"
    /\ cmd_error = "none"
    /\ inputs_read = {}
    /\ bigwig_written = FALSE

SizesIdle ==
    /\ sizes_lines = <<>>
    /\ sizes_cmd = "none"
    /\ sizes_pc = "idle"
    /\ sizes_error = "none"
    /\ chrom_sizes_dict = <<>>

LibIdle == CollapseIdle /\ BwIdle /\ ReadIdle /\ CmdIdle /\ SizesIdle

DriverInit ==
    /\ sample_to_fragment_file =
          [i \in 1..Len(Samples) |-> [sample |-> Samples[i], path |-> FragmentFilePath(Samples[i])]]
    /\ \E keys \in {Samples, SubSeq(Samples, 1, 1)}, entries \in AnnotationChoices :
          /\ \A i \in 1..Len(entries) : entries[i].sample \in Range(keys)
          /\ sample_to_cell_type_to_cell_barcodes =
                [i \in 1..Len(keys) |->
                    [sample |-> keys[i], cell_types |-> CellTypesOf(entries, keys[i])]]
          /\ split_state = [s \in Range(keys) |-> "pending"]
          /\ split_args = [s \in Range(keys) |-> <<>>]
    /\ n_cpu \in 1..MaxCpu
    /\ clear_temp_folder \in BOOLEAN
    /\ pc = "start"
    /\ error = NoError
    /\ dirs = {path_to_input_folder}
    /\ \E tagged \in FragmentChoices :
          files = [p \in {FragmentFilePath(s) : s \in Range(Samples)} |->
                      RecordsOf(tagged, (CHOOSE s \in Range(Samples) : FragmentFilePath(s) = p))]
    /\ cell_type_to_fragment_files = <<>>
    /\ merge_state = <<>>
    /\ merge_args = <<>>
    /\ removed = <<>>
    /\ written = {}

\* The folders made before the key check.
Setup_folders_first ==
    /\ pc = "start"
    /\ dirs' = dirs \cup {path_to_temp_folder, path_to_output_folder}
                    \cup {Join(path_to_temp_folder, sample_to_fragment_file[i].sample) :
                            i \in 1..Len(sample_to_fragment_file)}
    /\ IF SampleKeys(sample_to_fragment_file) # SampleKeys(sample_to_cell_type_to_cell_barcodes)
       THEN /\ pc' = "failed"
            /\ error' = [kind |-> "ValueError", path |-> <<>>]
       ELSE /\ pc' = "split"
            /\ error' = error
    /\ UNCHANGED <<cli_vars, cov_vars, lib_vars,
                   sample_to_fragment_file, sample_to_cell_type_to_cell_barcodes, n_cpu,
                   clear_temp_folder, files, split_state, split_args,
                   cell_type_to_fragment_files, merge_state, merge_args, removed, written>>

\* Lines 51-74: the key check, then the temp, output and per-sample folders.
Setup ==
    /\ pc = "start"
    /\ IF SampleKeys(sample_to_fragment_file) # SampleKeys(sample_to_cell_type_to_cell_barcodes)
       THEN /\ pc' = "failed"
            /\ error' = [kind |-> "ValueError", path |-> <<>>]
            /\ dirs' = dirs
       ELSE /\ pc' = "split"
            /\ error' = error
            /\ dirs' = dirs \cup {path_to_temp_folder, path_to_output_folder}
                            \cup {Join(path_to_temp_folder, sample_to_fragment_file[i].sample) :
                                    i \in 1..Len(sample_to_fragment_file)}
    /\ UNCHANGED <<cli_vars, cov_vars, lib_vars,
                   sample_to_fragment_file, sample_to_cell_type_to_cell_barcodes, n_cpu,
                   clear_temp_folder, files, split_state, split_args,
                   cell_type_to_fragment_files, merge_state, merge_args, removed, written>>

\* Lines 79-88: a worker takes the next split task.
SplitStart(sample) ==
    /\ pc = "split"
    /\ sample \in NextPending(AnnotatedSamples, split_state)
    /\ Failed(split_state) = {}
    /\ Cardinality(Running(split_state)) < n_cpu
    /\ split_state' = [split_state EXCEPT ![sample] = "running"]
    /\ split_args' = [split_args EXCEPT ![sample] = <<SplitTaskArgs(sample)>>]
    /\ UNCHANGED <<cli_vars, cov_vars, lib_vars,
                   sample_to_fragment_file, sample_to_cell_type_to_cell_barcodes, n_cpu,
                   clear_temp_folder, pc, error, dirs, files,
                   cell_type_to_fragment_files, merge_state, merge_args, removed, written>>

\* A split task ends: its shards are on disk.
SplitFinish(sample) ==
    /\ pc = "split"
    /\ split_state[sample] = "running"
    /\ split_args[sample][1].path_to_fragments \in DOMAIN files
    /\ \E pick \in SplitPicks(split_args[sample][1], files) :
          files' = split_fragments_by_cell_barcode(split_args[sample][1], files, pick)
    /\ written' = written \cup SplitWritten(split_args[sample][1], files)
    /\ split_state' = [split_state EXCEPT ![sample] = "done"]
    /\ UNCHANGED <<cli_vars, cov_vars, lib_vars,
                   sample_to_fragment_file, sample_to_cell_type_to_cell_barcodes, n_cpu,
                   clear_temp_folder, pc, error, dirs, split_args,
                   cell_type_to_fragment_files, merge_state, merge_args, removed>>

\* A split task raises; what it wrote before stays where it is.
SplitFail(sample) ==
    /\ pc = "split"
    /\ split_state[sample] = "running"
    /\ \/ UNCHANGED <<files, written>>
       \/ /\ split_args[sample][1].path_to_fragments \in DOMAIN files
          /\ \E pick \in SplitPicks(split_args[sample][1], files) :
                files' = split_fragments_by_cell_barcode(split_args[sample][1], files, pick)
          /\ written' = written \cup SplitWritten(split_args[sample][1], files)
    /\ split_state' = [split_state EXCEPT ![sample] = "failed"]
    /\ UNCHANGED <<cli_vars, cov_vars, lib_vars,
                   sample_to_fragment_file, sample_to_cell_type_to_cell_barcodes, n_cpu,
                   clear_temp_folder, pc, error, dirs, split_args,
                   cell_type_to_fragment_files, merge_state, merge_args, removed>>

\* joblib.Parallel re-raises the error of a failed split task.
SplitAbort ==
    /\ pc = "split"
    /\ Failed(split_state) # {}
    /\ pc' = "failed"
    /\ error' = [kind |-> "TaskError", path |-> <<>>]
    /\ UNCHANGED <<cli_vars, cov_vars, lib_vars,
                   sample_to_fragment_file, sample_to_cell_type_to_cell_barcodes, n_cpu,
                   clear_temp_folder, dirs, files, split_state, split_args,
                   cell_type_to_fragment_files, merge_state, merge_args, removed, written>>

\* Lines 90-107: every split task returned; check the shards, list them per
\* sanitized cell type.
CheckShards ==
    /\ pc = "split"
    /\ \A s \in DOMAIN split_state : split_state[s] = "done"
    /\ LET r == CollectShards(ShardPairs, files, <<>>)
       IN  IF r.ok
           THEN /\ pc' = "merge"
                /\ error' = error
                /\ cell_type_to_fragment_files' = r.dict
                /\ merge_state' = [k \in Range(DictKeys(r.dict)) |-> "pending"]
                /\ merge_args' = [k \in Range(DictKeys(r.dict)) |-> <<>>]
           ELSE /\ pc' = "failed"
                /\ error' = [kind |-> "ShardMissing", path |-> r.path]
                /\ UNCHANGED <<cell_type_to_fragment_files, merge_state, merge_args>>
    /\ UNCHANGED <<cli_vars, cov_vars, lib_vars,
                   sample_to_fragment_file, sample_to_cell_type_to_cell_barcodes, n_cpu,
                   clear_temp_folder, dirs, files, split_state, split_args, removed, written>>

\* Lines 112-122: a worker takes the next merge task.
MergeStart(cell_type) ==
    /\ pc = "merge"
    /\ cell_type \in NextPending(DictKeys(cell_type_to_fragment_files), merge_state)
    /\ Failed(merge_state) = {}
    /\ Cardinality(Running(merge_state)) < n_cpu
    /\ merge_state' = [merge_state EXCEPT ![cell_type] = "running"]
    /\ merge_args' = [merge_args EXCEPT ![cell_type] = <<MergeTaskArgs(cell_type)>>]
    /\ UNCHANGED <<cli_vars, cov_vars, lib_vars,
                   sample_to_fragment_file, sample_to_cell_type_to_cell_barcodes, n_cpu,
                   clear_temp_folder, pc, error, dirs, files, split_state, split_args,
                   cell_type_to_fragment_files, removed, written>>

\* A merge task ends: its output file is on disk.
MergeFinish(cell_type) ==
    /\ pc = "merge"
    /\ merge_state[cell_type] = "running"
    /\ \A i \in 1..Len(merge_args[cell_type][1].path_to_fragment_files) :
          merge_args[cell_type][1].path_to_fragment_files[i] \in DOMAIN files
    /\ files' = [p \in (DOMAIN files) \cup {merge_args[cell_type][1].path_to_output_file} |->
                    IF p = merge_args[cell_type][1].path_to_output_file
                    THEN merge_fragment_files(merge_args[cell_type][1].path_to_fragment_files, files)
                    ELSE files[p]]
    /\ merge_state' = [merge_state EXCEPT ![cell_type] = "done"]
    /\ UNCHANGED <<cli_vars, cov_vars, lib_vars,
                   sample_to_fragment_file, sample_to_cell_type_to_cell_barcodes, n_cpu,
                   clear_temp_folder, pc, error, dirs, split_state, split_args,
                   cell_type_to_fragment_files, merge_args, removed, written>>

\* A merge task raises; its partial output is removed.
MergeFail(cell_type) ==
    /\ pc = "merge"
    /\ merge_state[cell_type] = "running"
    /\ files' = Without(files, merge_args[cell_type][1].path_to_output_file)
    /\ merge_state' = [merge_state EXCEPT ![cell_type] = "failed"]
    /\ UNCHANGED <<cli_vars, cov_vars, lib_vars,
                   sample_to_fragment_file, sample_to_cell_type_to_cell_barcodes, n_cpu,
                   clear_temp_folder, pc, error, dirs, split_state, split_args,
                   cell_type_to_fragment_files, merge_args, removed, written>>

\* joblib.Parallel re-raises the error of a failed merge task.
MergeAbort ==
    /\ pc = "merge"
    /\ Failed(merge_state) # {}
    /\ pc' = "failed"
    /\ error' = [kind |-> "TaskError", path |-> <<>>]
    /\ UNCHANGED <<cli_vars, cov_vars, lib_vars,
                   sample_to_fragment_file, sample_to_cell_type_to_cell_barcodes, n_cpu,
                   clear_temp_folder, dirs, files, split_state, split_args,
                   cell_type_to_fragment_files, merge_state, merge_args, removed, written>>

\* Lines 124-144: every merge task returned; the output check (which builds a
\* Warning and drops it), then the cleanup.
Cleanup ==
    /\ pc = "merge"
    /\ \A k \in DOMAIN merge_state : merge_state[k] = "done"
    /\ IF ClearRequested
       THEN LET r == RemoveAll(Flatten([i \in 1..Len(cell_type_to_fragment_files) |->
                                            cell_type_to_fragment_files[i].paths]),
                               files, <<>>)
            IN  /\ files' = r.files
                /\ removed' = r.removed
                /\ pc' = IF r.ok THEN "done" ELSE "failed"
                /\ error' = IF r.ok THEN error
                            ELSE [kind |-> "FileNotFoundError", path |-> r.path]
       ELSE /\ pc' = "done"
            /\ UNCHANGED <<files, removed, error>>
    /\ UNCHANGED <<cli_vars, cov_vars, lib_vars,
                   sample_to_fragment_file, sample_to_cell_type_to_cell_barcodes, n_cpu,
                   clear_temp_folder, dirs, split_state, split_args,
                   cell_type_to_fragment_files, merge_state, merge_args, written>>

DriverNext ==
    \/ Setup
    \/ \E sample \in DOMAIN split_state : SplitStart(sample)
    \/ \E sample \in DOMAIN split_state : SplitFinish(sample)
    \/ \E sample \in DOMAIN split_state : SplitFail(sample)
    \/ SplitAbort
    \/ CheckShards
    \/ \E cell_type \in DOMAIN merge_state : MergeStart(cell_type)
    \/ \E cell_type \in DOMAIN merge_state : MergeFinish(cell_type)
    \/ \E cell_type \in DOMAIN merge_state : MergeFail(cell_type)
    \/ MergeAbort
    \/ Cleanup

vars == <<driver_vars, cli_vars, cov_vars, lib_vars>>

\* One run of split_fragment_files_by_cell_type.
Init == DriverInit /\ CliIdle /\ CovIdle /\ LibIdle

Spec == Init /\ [][DriverNext]_vars

\* ------------------------------------------------ the split driver's claims
Project(r) == [chrom |-> r.chrom, start |-> r.start, end |-> r.end, barcode |-> r.barcode]

DeclaredCellTypes == {ShardPairs[i].cell_type : i \in 1..Len(ShardPairs)}

\* How often record r of sample s belongs in the output of cell type T.
ExpectedCount(T, r) ==
    Cardinality({x \in {<<i, j, n>> : i \in 1..Len(sample_to_cell_type_to_cell_barcodes),
                                      j \in 1..MaxTypes, n \in 1..MaxFrags} :
        LET entry == sample_to_cell_type_to_cell_barcodes[x[1]]
            input == files[FragmentFileOf(entry.sample)]
        IN  /\ x[2] <= Len(entry.cell_types)
            /\ entry.cell_types[x[2]].cell_type = T
            /\ x[3] <= Len(input)
            /\ input[x[3]] = r
            /\ r.chrom \in ChromNames
            /\ r.barcode \in entry.cell_types[x[2]].barcodes})

OutputCount(T, r) ==
    Cardinality({n \in 1..Len(files[CheckedOutputPath(T)]) :
                    Project(files[CheckedOutputPath(T)][n]) = r})

\* C1: after a successful run the output file of every cell type T holds, as
\* a multiset, exactly the records of all samples whose chromosome is in
\* chromsizes and whose barcode is in the sample's barcode set for T.
C1_OutputIsPartition ==
    pc = "done" =>
        \A T \in DeclaredCellTypes :
            /\ CheckedOutputPath(T) \in DOMAIN files
            /\ \A r \in FragPool : OutputCount(T, r) = ExpectedCount(T, r)

OutputPaths == {p \in DOMAIN files : StartsWith(p, path_to_output_folder)}

OutputKey(r) == <<ChromRank(r.chrom), r.start, r.end, BcRank(r.barcode)>>

\* The sample a shard path belongs to: its folder under the temp folder.
SampleOfShard(shard) == shard[Len(path_to_temp_folder) + 1]

\* C2: every merged output is non-decreasing in (chromsizes order, start,
\* end, barcode), and records of different shards with equal keys keep the
\* order in which the driver listed the samples' shards.
C2_OutputOrderedAndStable ==
    \A p \in OutputPaths :
        \A i, j \in 1..Len(files[p]) :
            (i < j) =>
                /\ LexLeq(OutputKey(files[p][i]), OutputKey(files[p][j]))
                /\ (/\ OutputKey(files[p][i]) = OutputKey(files[p][j])
                    /\ files[p][i].shard # files[p][j].shard)
                   => IndexOf(AnnotatedSamples, SampleOfShard(files[p][i].shard))
                        < IndexOf(AnnotatedSamples, SampleOfShard(files[p][j].shard))

\* An output holding equal records of two shards, and one holding two records
\* that differ.
C2_Witness ==
    /\ \E p \in OutputPaths : \E i, j \in 1..Len(files[p]) :
          /\ i < j
          /\ OutputKey(files[p][i]) = OutputKey(files[p][j])
          /\ files[p][i].shard # files[p][j].shard
    /\ pc = "done"

ExpectedShards ==
    {ShardPath(ShardPairs[i].sample, _santize_string_for_filename(ShardPairs[i].cell_type)) :
        i \in 1..Len(ShardPairs)}

ListedShards ==
    UNION {Range(cell_type_to_fragment_files[i].paths) :
             i \in 1..Len(cell_type_to_fragment_files)}

MergeStarted == \E k \in DOMAIN merge_state : merge_state[k] # "pending"

\* The barrier: past the split phase every split task is done and every
\* expected shard passed the existence check; a failed split task or a
\* missing shard leaves every merge unstarted and no output written.
C4_Barrier ==
    /\ (pc \in {"merge", "done"} \/ MergeStarted) =>
          /\ \A s \in DOMAIN split_state : split_state[s] = "done"
          /\ ExpectedShards \subseteq ListedShards
          /\ \A p \in ExpectedShards : p \in DOMAIN files \/ p \in Range(removed)
    /\ (Failed(split_state) # {} \/ error.kind = "ShardMissing") =>
          /\ pc \in {"split", "failed"}
          /\ ~MergeStarted
          /\ merge_args = <<>>
          /\ OutputPaths = {}

\* The error of a missing shard names the first expected shard that is absent.
C4_MissingShardNamed ==
    error.kind = "ShardMissing" =>
        /\ pc = "failed"
        /\ error.path \in ExpectedShards
        /\ error.path \notin DOMAIN files

\* C4 (as amended): no merge task starts before every split task finished
\* without error and every shard passed the check; a failed split task makes
\* the driver fail with that task's error, an absent shard with an error
\* naming the shard; in both cases no merge starts and no output is written.
C4_BarrierAmended ==
    /\ C4_Barrier
    /\ C4_MissingShardNamed
    /\ (pc = "failed" /\ Failed(split_state) # {}) => error.kind = "TaskError"

\* C4 (as claimed): the same, with the error naming the missing shard also
\* when a split task failed.
C4_BarrierOriginal ==
    /\ C4_Barrier
    /\ C4_MissingShardNamed
    /\ (pc = "failed" /\ Failed(split_state) # {}) => error.kind = "ShardMissing"

\* The driver stopped at a shard that is absent although every split task
\* returned.
C4_Witness ==
    /\ pc = "failed"
    /\ error.kind = "ShardMissing"
    /\ written # {}

\* C5: shards are removed only with cleanup requested and every merge task
\* done; without the request, or after a failed split task, shard check or
\* merge task, nothing is removed and the shards written stay in place.
C5_CleanupOnlyOnSuccess ==
    /\ removed # <<>> =>
          /\ clear_temp_folder
          /\ pc \in {"done", "failed"}
          /\ Failed(split_state) = {} /\ Failed(merge_state) = {}
          /\ \A k \in DOMAIN merge_state : merge_state[k] = "done"
          /\ Range(removed) \subseteq written
    /\ (\/ ~clear_temp_folder
        \/ Failed(split_state) # {}
        \/ error.kind = "ShardMissing"
        \/ Failed(merge_state) # {}) =>
          /\ removed = <<>>
          /\ written \subseteq DOMAIN files

\* The cleanup ran and removed shards.
C5_Witness ==
    /\ pc = "done"
    /\ removed # <<>>

InputPaths == {sample_to_fragment_file[i].path : i \in 1..Len(sample_to_fragment_file)}

\* C6: once the merge phase succeeded with cleanup requested, the cleanup
\* completes, every shard written is gone, each removed once, and the inputs
\* and the merged outputs are still there.
C6_CleanupRemovesEachShardOnce ==
    (/\ clear_temp_folder
     /\ pc \in {"done", "failed"}
     /\ error.kind \notin {"ValueError", "TaskError", "ShardMissing"}) =>
        /\ pc = "done"
        /\ written \cap DOMAIN files = {}
        /\ Range(removed) = written
        /\ \A i, j \in 1..Len(removed) : (i # j) => removed[i] # removed[j]
        /\ InputPaths \subseteq DOMAIN files
        /\ \A i \in 1..Len(cell_type_to_fragment_files) :
              CheckedOutputPath(cell_type_to_fragment_files[i].key) \in DOMAIN files

\* The file name of cell type ct: every space and '/' replaced by '_', the
\* rest kept, then the suffix.
SanitizedFilename(ct) ==
    [i \in 1..Len(ct) |-> IF ct[i] \in {" ", "/"} THEN "_" ELSE ct[i]] \o <<Suffix>>

CleanFilename(path) ==
    \A i \in 1..Len(path[Len(path)]) : path[Len(path)][i] \notin {" ", "/"}

\* C7: the filename of every shard and output path of the driver has no
\* space and no '/', is the cell type with both replaced by '_' plus the
\* suffix, and the merge task's output path is the path checked afterwards.
C7_SanitizedPaths ==
    /\ \A p \in ListedShards : CleanFilename(p)
    /\ \A k \in DOMAIN merge_args :
          merge_args[k] # <<>> =>
              /\ CleanFilename(merge_args[k][1].path_to_output_file)
              /\ merge_args[k][1].path_to_output_file = CheckedOutputPath(k)
              /\ \A i \in 1..Len(merge_args[k][1].path_to_fragment_files) :
                    CleanFilename(merge_args[k][1].path_to_fragment_files[i])
    /\ pc \in {"merge", "done"} =>
          \A n \in 1..Len(ShardPairs) :
              /\ Join(Join(path_to_temp_folder, ShardPairs[n].sample),
                      SanitizedFilename(ShardPairs[n].cell_type)) \in ListedShards
              /\ \E i \in 1..Len(cell_type_to_fragment_files) :
                    LET k == cell_type_to_fragment_files[i].key
                    IN  /\ MergeOutputPath(k) =
                              Join(path_to_output_folder, SanitizedFilename(ShardPairs[n].cell_type))
                        /\ CheckedOutputPath(k) = MergeOutputPath(k)

\* A run that merged cell types with a space and with a '/' in their names.
C7_Witness ==
    /\ pc = "done"
    /\ \E T \in DeclaredCellTypes : " " \in Range(T)
    /\ \E T \in DeclaredCellTypes : "/" \in Range(T)

StartedSplits == {s \in DOMAIN split_args : split_args[s] # <<>>}

StartedMerges == {k \in DOMAIN merge_args : merge_args[k] # <<>>}

\* C8: tasks of one phase never write the same path, and none writes a path
\* another one reads: a split task writes only under its sample's temp
\* folder, a merge task only the output file of its cell type.
C8_DisjointTaskPaths ==
    /\ \A s \in StartedSplits :
          \A p \in SplitTargets(split_args[s][1]) :
              /\ StartsWith(p, Join(path_to_temp_folder, s))
              /\ \A t \in StartedSplits \ {s} :
                    /\ p \notin SplitTargets(split_args[t][1])
                    /\ p # split_args[t][1].path_to_fragments
    /\ \A k \in StartedMerges :
          /\ merge_args[k][1].path_to_output_file =
                Join(path_to_output_folder, k \o <<Suffix>>)
          /\ \A m \in StartedMerges \ {k} :
                /\ merge_args[k][1].path_to_output_file # merge_args[m][1].path_to_output_file
                /\ merge_args[k][1].path_to_output_file
                      \notin Range(merge_args[m][1].path_to_fragment_files)

\* Two split tasks with a cell type of the same name run at the same time.
C8_Witness ==
    \E s, t \in Running(split_state) :
        /\ s # t
        /\ \E i \in 1..Len(split_args[s][1].cell_type_to_cell_barcodes) :
           \E j \in 1..Len(split_args[t][1].cell_type_to_cell_barcodes) :
              split_args[s][1].cell_type_to_cell_barcodes[i].cell_type =
                  split_args[t][1].cell_type_to_cell_barcodes[j].cell_type


\* ---------------------------------------------------------------------------
\* The command line entry point: main() and the two subcommand parsers.
\* An option token stands for the option together with its value, when it
\* takes one.
\* ---------------------------------------------------------------------------

\* Option strings registered by add_split_fragments_by_cell_type_subparser,
\* plus the help option that argparse adds to every parser.
SplitOptionStrings ==
    { "-f", "--sample_fragments", "-b", "--cell_type_barcodes", "-c", "--chrom",
      "-o", "--output", "-t", "--temp", "-n", "--n_cpu", "-v", "--verbose",
      "--clear_temp", "-s", "--sep", "--sample_column", "--fragment_column",
      "--cell_type_column", "--cell_barcode_column", "-h", "--help" }

SplitRequired ==
    { {"-f", "--sample_fragments"}, {"-b", "--cell_type_barcodes"},
      {"-c", "--chrom"}, {"-o", "--output"} }

\* Option strings registered by add_fragments_to_bigwig_subparser.
BigwigOptionStrings ==
    { "-c", "--chrom", "-i", "--frag", "-o", "--bw", "-n", "--normalize",
      "-s", "--scaling", "-x", "--cut-sites", "-w", "--writer", "--chrom-prefix",
      "-v", "--verbose", "-h", "--help" }

BigwigRequired ==
    { {"-c", "--chrom"}, {"-i", "--frag"}, {"-o", "--bw"} }

\* _commands: the subcommand names collected from _PARSERS_CREATOR_FUNCS.
_commands == {"bigwig", "split"}

OptionStringsOf(command) ==
    IF command = "split" THEN SplitOptionStrings ELSE BigwigOptionStrings

RequiredOf(command) ==
    IF command = "split" THEN SplitRequired ELSE BigwigRequired

\* The command lines explored: the program name, then nothing, or one first
\* argument followed by any subset of OptionPool in this order.
OptionPool == <<"-f", "-b", "-c", "-i", "-o", "--clear_temp", "--add_sample_id", "--help">>

FirstArguments == {"split", "bigwig", "--help", "frobnicate"}

CommandLines ==
    { <<"scatac_fragment_tools">> } \cup
    { <<"scatac_fragment_tools", first>> \o SelectSeq(OptionPool, LAMBDA t : t \in chosen) :
        first \in FirstArguments, chosen \in SUBSET Range(OptionPool) }

\* What ArgumentParser.parse_args does with the arguments after a subcommand
\* name: a help option prints the subcommand's help and exits with status 0;
\* a missing required option or an unrecognized argument is an error, exit
\* status 2; otherwise the namespace carries the subcommand's func.
SubparserOutcome(command, arguments) ==
    LET given == Range(arguments) IN
    IF given \cap {"-h", "--help"} # {} THEN "help"
    ELSE IF \E required \in RequiredOf(command) : required \cap given = {} THEN "error"
    ELSE IF given \ OptionStringsOf(command) # {} THEN "error"
    ELSE "ok"

\* parse_args of the main parser on sys.argv[1:].
parse_args(argv) ==
    LET first == argv[2]
        rest  == SubSeq(argv, 3, Len(argv)) IN
    IF first \in {"-h", "--help"} THEN [outcome |-> "help", command |-> "main"]
    ELSE IF first \notin _commands THEN [outcome |-> "error", command |-> "main"]
    ELSE [outcome |-> SubparserOutcome(first, rest), command |-> first]

CliInit ==
    /\ sys_argv \in CommandLines
    /\ inputs_ok \in BOOLEAN
    /\ cli_pc = "main"
    /\ exit_status = -1
    /\ called = "none"
    /\ help_printed = "none"

\* main() without the branch for a single argument: every non-empty command
\* line goes to parse_args.
Main_without_single_argument_branch ==
    /\ cli_pc = "main"
    /\ LET outcome == IF Len(sys_argv) >= 2 THEN parse_args(sys_argv)
                      ELSE [outcome |-> "none", command |-> "main"] IN
       IF Len(sys_argv) = 1
       THEN /\ help_printed' = "main"
            /\ exit_status' = 0
            /\ cli_pc' = "exited"
            /\ called' = called
       ELSE IF outcome.outcome = "help"
       THEN /\ help_printed' = outcome.command
            /\ exit_status' = 0
            /\ cli_pc' = "exited"
            /\ called' = called
       ELSE IF outcome.outcome = "error"
       THEN /\ help_printed' = help_printed
            /\ exit_status' = 2
            /\ cli_pc' = "exited"
            /\ called' = called
       ELSE /\ help_printed' = help_printed
            /\ exit_status' = exit_status
            /\ cli_pc' = "command"
            /\ called' = outcome.command
    /\ UNCHANGED <<sys_argv, inputs_ok, driver_vars, cov_vars, lib_vars>>

\* main() up to the call of args.func: the help branches return 0, and
\* parse_args leaves through SystemExit on help (0) or on an error (2).
Main ==
    /\ cli_pc = "main"
    /\ LET outcome == IF Len(sys_argv) >= 3 THEN parse_args(sys_argv)
                      ELSE [outcome |-> "none", command |-> "main"] IN
       IF Len(sys_argv) = 1
       THEN /\ help_printed' = "main"
            /\ exit_status' = 0
            /\ cli_pc' = "exited"
            /\ called' = called
       ELSE IF Len(sys_argv) = 2
       THEN /\ help_printed' = IF sys_argv[2] \in _commands THEN sys_argv[2] ELSE "main"
            /\ exit_status' = 0
            /\ cli_pc' = "exited"
            /\ called' = called
       ELSE IF outcome.outcome = "help"
       THEN /\ help_printed' = outcome.command
            /\ exit_status' = 0
            /\ cli_pc' = "exited"
            /\ called' = called
       ELSE IF outcome.outcome = "error"
       THEN /\ help_printed' = help_printed
            /\ exit_status' = 2
            /\ cli_pc' = "exited"
            /\ called' = called
       ELSE /\ help_printed' = help_printed
            /\ exit_status' = exit_status
            /\ cli_pc' = "command"
            /\ called' = outcome.command
    /\ UNCHANGED <<sys_argv, inputs_ok, driver_vars, cov_vars, lib_vars>>

\* The command function returns, main returns 0 and sys.exit(0) follows.
CommandReturn ==
    /\ cli_pc = "command"
    /\ inputs_ok
    /\ exit_status' = 0
    /\ cli_pc' = "exited"
    /\ UNCHANGED <<sys_argv, inputs_ok, called, help_printed, driver_vars, cov_vars, lib_vars>>

\* The command function raises (an input file is missing or malformed): the
\* exception leaves main and the interpreter exits with status 1.
CommandRaise ==
    /\ cli_pc = "command"
    /\ ~inputs_ok
    /\ exit_status' = 1
    /\ cli_pc' = "exited"
    /\ UNCHANGED <<sys_argv, inputs_ok, called, help_printed, driver_vars, cov_vars, lib_vars>>

CliNext ==
    \/ Main
    \/ CommandReturn
    \/ CommandRaise

\* One invocation of the command line program.
InitCli == CliInit /\ DriverIdle /\ CovIdle /\ LibIdle

SpecCli == InitCli /\ [][CliNext]_vars

\* C3: a split invocation that carries --add_sample_id next to every required
\* option, on readable inputs, is accepted: the split command runs and the
\* process exits with status 0.
C3_AddSampleIdAccepted ==
    ( /\ cli_pc = "exited"
      /\ Len(sys_argv) >= 3
      /\ sys_argv[2] = "split"
      /\ "--add_sample_id" \in Range(sys_argv)
      /\ \A required \in SplitRequired : required \cap Range(sys_argv) # {}
      /\ "--help" \notin Range(sys_argv)
      /\ inputs_ok )
    => (exit_status = 0 /\ called = "split")


\* ---------------------------------------------------------------------------
\* The coverage generator: calculate_depth, collapse_consecutive_values and
\* fragments_to_coverage.  A numpy array of length n is a sequence of length
\* n: position p of the array is element p + 1.  A float is an exact
\* fraction [num, den]; float32 rounding is left out.
\* ---------------------------------------------------------------------------

\* Largest coordinate of a row of fragments_df (chr1 has size 3).
MaxCoord == 4
\* Rows of fragments_df.
MaxCovFrags == 2

chrom_sizes(chrom) == chromsizes[ChromRank(chrom)].size

\* Rows on the chromosomes of chromsizes, from one base pair before the
\* chromosome's start to past its end and down to length zero, and a row on
\* a chromosome that chromsizes does not list.
CovPool ==
    {r \in [Chromosome : ChromNames, Start : (-1)..(MaxCoord - 1), End : 0..MaxCoord] :
        r.Start <= r.End}
    \cup {[Chromosome |-> "chrX", Start |-> 0, End |-> 1]}

CovKey(r) == <<r.Start, r.End, IndexOf(FileChroms, r.Chromosome)>>

\* The rows of fragments_df, one representative per multiset of rows.
FragmentsDfs ==
    {df \in SeqsUpTo(CovPool, MaxCovFrags) :
        \A i \in 1..(Len(df) - 1) : LexLeq(CovKey(df[i]), CovKey(df[i + 1]))}

ScalingFactors == {[num |-> k, den |-> 1] : k \in 0..2}

RatMul(a, b) == [num |-> a.num * b.num, den |-> a.den * b.den]

RatDiv(a, b) == [num |-> a.num * b.den, den |-> a.den * b.num]

RatEq(a, b) == a.num * b.den = b.num * a.den

Zeros(n) == [p \in 1..n |-> 0]

\* A slice bound of an array of length n: a negative bound counts from the
\* end, and the result is clamped to 0..n.
SliceBound(i, n) ==
    IF i < 0 THEN (IF i + n < 0 THEN 0 ELSE i + n)
    ELSE IF i > n THEN n ELSE i

AddOne_inclusive_end(chrom_depth, lo, hi) ==
    LET n == Len(chrom_depth)
        a == SliceBound(lo, n)
        b == SliceBound(hi + 1, n) IN
    [p \in 1..n |-> IF a <= p - 1 /\ p - 1 < b THEN chrom_depth[p] + 1 ELSE chrom_depth[p]]

\* chrom_depth[lo:hi] += 1
AddOne(chrom_depth, lo, hi) ==
    LET n == Len(chrom_depth)
        a == SliceBound(lo, n)
        b == SliceBound(hi, n) IN
    [p \in 1..n |-> IF a <= p - 1 /\ p - 1 < b THEN chrom_depth[p] + 1 ELSE chrom_depth[p]]

RECURSIVE DepthLoop(_, _, _, _)
DepthLoop(chrom_depth, starts, ends, i) ==
    IF i > Len(starts) THEN chrom_depth
    ELSE DepthLoop(AddOne(chrom_depth, starts[i], ends[i]), starts, ends, i + 1)

calculate_depth(chrom_size, starts, ends) ==
    DepthLoop(Zeros(chrom_size), starts, ends, 1)

collapse_consecutive_values_per_position(X) ==
    [ idx     |-> [k \in 1..Len(X) |-> k - 1],
      values  |-> X,
      lengths |-> [k \in 1..Len(X) |-> 1] ]

\* collapse_consecutive_values on a non-empty array (every chromosome of
\* chromsizes has a positive size).
collapse_consecutive_values(X) ==
    LET n       == Len(X)
        changes == SelectSeq([i \in 1..(n - 1) |-> i], LAMBDA i : X[i] # X[i + 1])
        j       == Len(changes) + 1
        idx     == <<0>> \o changes \o <<n>> IN
    [ idx     |-> SubSeq(idx, 1, j),
      values  |-> [k \in 1..j |-> X[idx[k] + 1]],
      lengths |-> [k \in 1..j |-> idx[k + 1] - idx[k]] ]

\* fragments_df.partition_by(["Chromosome"]): one frame per chromosome, in
\* the order of first appearance.
partition_by(df) ==
    LET firsts == SelectSeq([i \in 1..Len(df) |-> i],
                            LAMBDA i : \A j \in 1..(i - 1) : df[j].Chromosome # df[i].Chromosome) IN
    [k \in 1..Len(firsts) |->
        [chrom |-> df[firsts[k]].Chromosome,
         rows  |-> SelectSeq(df, LAMBDA r : r.Chromosome = df[firsts[k]].Chromosome)]]

CovInit ==
    /\ fragments_df \in FragmentsDfs
    /\ normalize \in BOOLEAN
    /\ scaling_factor \in ScalingFactors
    /\ cut_sites \in BOOLEAN
    /\ cov_pc = "start"
    /\ chrom_arrays = <<>>
    /\ n_fragments = 0
    /\ per_chrom_fragments_dfs = <<>>
    /\ depth_i = 0
    /\ rpm_scaling_factor = One
    /\ compact_i = 0
    /\ yielded = <<>>

\* Lines 336-355: every chromosome's array is allocated, then the frame is
\* partitioned.
CovAlloc ==
    /\ cov_pc = "start"
    /\ chrom_arrays' = [chrom \in ChromNames |-> Zeros(chrom_sizes(chrom))]
    /\ n_fragments' = 0
    /\ per_chrom_fragments_dfs' = partition_by(fragments_df)
    /\ depth_i' = 1
    /\ cov_pc' = "depth"
    /\ UNCHANGED <<fragments_df, normalize, scaling_factor, cut_sites,
                   rpm_scaling_factor, compact_i, yielded, driver_vars, cli_vars, lib_vars>>

\* One iteration of the loop over per_chrom_fragments_dfs.
CovDepth ==
    /\ cov_pc = "depth"
    /\ depth_i <= Len(per_chrom_fragments_dfs)
    /\ LET chrom  == per_chrom_fragments_dfs[depth_i].chrom
           rows   == per_chrom_fragments_dfs[depth_i].rows
           starts == [i \in 1..Len(rows) |-> rows[i].Start]
           ends   == [i \in 1..Len(rows) |-> rows[i].End]
           cut_starts == starts \o [i \in 1..Len(rows) |-> ends[i] - 1]
           cut_ends   == [i \in 1..Len(rows) |-> starts[i] + 1] \o ends IN
       IF chrom \notin ChromNames
       THEN UNCHANGED <<chrom_arrays, n_fragments>>
       ELSE /\ chrom_arrays' =
                [chrom_arrays EXCEPT ![chrom] =
                    IF cut_sites
                    THEN calculate_depth(chrom_sizes(chrom), cut_starts, cut_ends)
                    ELSE calculate_depth(chrom_sizes(chrom), starts, ends)]
            /\ n_fragments' = n_fragments + Len(rows)
    /\ depth_i' = depth_i + 1
    /\ UNCHANGED <<fragments_df, normalize, scaling_factor, cut_sites, cov_pc,
                   per_chrom_fragments_dfs, rpm_scaling_factor, compact_i, yielded,
                   driver_vars, cli_vars, lib_vars>>

CovRpm_counting_all_rows ==
    /\ cov_pc = "depth"
    /\ depth_i > Len(per_chrom_fragments_dfs)
    /\ rpm_scaling_factor' = [num |-> Len(fragments_df), den |-> 1000000]
    /\ compact_i' = 1
    /\ cov_pc' = "compact"
    /\ UNCHANGED <<fragments_df, normalize, scaling_factor, cut_sites, chrom_arrays,
                   n_fragments, per_chrom_fragments_dfs, depth_i, yielded,
                   driver_vars, cli_vars, lib_vars>>


\* rpm_scaling_factor = n_fragments / 1_000_000.0
CovRpm ==
    /\ cov_pc = "depth"
    /\ depth_i > Len(per_chrom_fragments_dfs)
    /\ rpm_scaling_factor' = [num |-> n_fragments, den |-> 1000000]
    /\ compact_i' = 1
    /\ cov_pc' = "compact"
    /\ UNCHANGED <<fragments_df, normalize, scaling_factor, cut_sites, chrom_arrays,
                   n_fragments, per_chrom_fragments_dfs, depth_i, yielded,
                   driver_vars, cli_vars, lib_vars>>


CovCompact_reversed ==
    /\ cov_pc = "compact"
    /\ compact_i <= Len(chromsizes)
    /\ LET chrom        == chromsizes[Len(chromsizes) + 1 - compact_i].chrom
           collapsed    == collapse_consecutive_values(chrom_arrays[chrom])
           non_zero_idx == SelectSeq([k \in 1..Len(collapsed.values) |-> k],
                                     LAMBDA k : collapsed.values[k] # 0)
           m            == Len(non_zero_idx)
           depth(k)     == [num |-> collapsed.values[non_zero_idx[k]], den |-> 1]
           value(k)     == IF normalize
                           THEN RatMul(RatDiv(depth(k), rpm_scaling_factor), scaling_factor)
                           ELSE IF ~RatEq(scaling_factor, One)
                           THEN RatMul(depth(k), scaling_factor)
                           ELSE depth(k) IN
       IF m = 0
       THEN yielded' = yielded
       ELSE yielded' = Append(yielded,
                [ chroms |-> [k \in 1..m |-> chrom],
                  starts |-> [k \in 1..m |-> collapsed.idx[non_zero_idx[k]]],
                  ends   |-> [k \in 1..m |-> collapsed.idx[non_zero_idx[k]]
                                             + collapsed.lengths[non_zero_idx[k]]],
                  values |-> [k \in 1..m |-> value(k)] ])
    /\ compact_i' = compact_i + 1
    /\ UNCHANGED <<fragments_df, normalize, scaling_factor, cut_sites, cov_pc,
                   chrom_arrays, n_fragments, per_chrom_fragments_dfs, depth_i,
                   rpm_scaling_factor, driver_vars, cli_vars, lib_vars>>

\* One iteration of the loop over chrom_sizes: compact the chromosome's
\* array, drop the runs of depth zero, scale, and yield unless nothing is left.
CovCompact ==
    /\ cov_pc = "compact"
    /\ compact_i <= Len(chromsizes)
    /\ LET chrom        == chromsizes[compact_i].chrom
           collapsed    == collapse_consecutive_values(chrom_arrays[chrom])
           non_zero_idx == SelectSeq([k \in 1..Len(collapsed.values) |-> k],
                                     LAMBDA k : collapsed.values[k] # 0)
           m            == Len(non_zero_idx)
           depth(k)     == [num |-> collapsed.values[non_zero_idx[k]], den |-> 1]
           value(k)     == IF normalize
                           THEN RatMul(RatDiv(depth(k), rpm_scaling_factor), scaling_factor)
                           ELSE IF ~RatEq(scaling_factor, One)
                           THEN RatMul(depth(k), scaling_factor)
                           ELSE depth(k) IN
       IF m = 0
       THEN yielded' = yielded
       ELSE yielded' = Append(yielded,
                [ chroms |-> [k \in 1..m |-> chrom],
                  starts |-> [k \in 1..m |-> collapsed.idx[non_zero_idx[k]]],
                  ends   |-> [k \in 1..m |-> collapsed.idx[non_zero_idx[k]]
                                             + collapsed.lengths[non_zero_idx[k]]],
                  values |-> [k \in 1..m |-> value(k)] ])
    /\ compact_i' = compact_i + 1
    /\ UNCHANGED <<fragments_df, normalize, scaling_factor, cut_sites, cov_pc,
                   chrom_arrays, n_fragments, per_chrom_fragments_dfs, depth_i,
                   rpm_scaling_factor, driver_vars, cli_vars, lib_vars>>

\* The generator is exhausted.
CovStop ==
    /\ cov_pc = "compact"
    /\ compact_i > Len(chromsizes)
    /\ cov_pc' = "done"
    /\ UNCHANGED <<fragments_df, normalize, scaling_factor, cut_sites, chrom_arrays,
                   n_fragments, per_chrom_fragments_dfs, depth_i, rpm_scaling_factor,
                   compact_i, yielded, driver_vars, cli_vars, lib_vars>>

CovNext ==
    \/ CovAlloc
    \/ CovDepth
    \/ CovRpm
    \/ CovCompact
    \/ CovStop

\* One run of the generator fragments_to_coverage, consumed to its end.
InitCov == CovInit /\ DriverIdle /\ CliIdle /\ LibIdle

SpecCov == InitCov /\ [][CovNext]_vars

RECURSIVE SumSeq(_)
SumSeq(s) == IF s = <<>> THEN 0 ELSE Head(s) + SumSeq(Tail(s))

RowsOn(chrom) == SelectSeq(fragments_df, LAMBDA r : r.Chromosome = chrom)

Covers(lo, hi, p) == IF lo <= p /\ p < hi THEN 1 ELSE 0

\* The number of intervals of the rows on chrom that contain position p.
CoveringCount(chrom, p) ==
    LET rows == RowsOn(chrom) IN
    IF cut_sites
    THEN SumSeq([i \in 1..Len(rows) |->
                    Covers(rows[i].Start, rows[i].Start + 1, p)
                    + Covers(rows[i].End - 1, rows[i].End, p)])
    ELSE SumSeq([i \in 1..Len(rows) |-> Covers(rows[i].Start, rows[i].End, p)])

DepthComputed == cov_pc \in {"compact", "done"}

\* C9: once the depth loop has run, the depth at every position p of every
\* chromosome of the chromosome sizes equals the number of rows on that
\* chromosome whose interval [Start, End) contains p (or, with cut_sites,
\* the number of their 1-bp end intervals that contain p); the part of an
\* interval beyond the chromosome's size is clipped.
C9_DepthCountsCoveringRows ==
    DepthComputed =>
        \A chrom \in ChromNames : \A p \in 0..(chrom_sizes(chrom) - 1) :
            chrom_arrays[chrom][p + 1] = CoveringCount(chrom, p)

\* The runs yielded for a chromosome (none when it was skipped).
RunsOf(chrom) ==
    LET mine == SelectSeq(yielded, LAMBDA y : y.chroms[1] = chrom) IN
    IF mine = <<>> THEN [starts |-> <<>>, ends |-> <<>>, values |-> <<>>] ELSE mine[1]

\* Sum over the runs of a chromosome of (end - start) * value, as a fraction
\* over the common denominator 1 (the values are whole when unscaled).
RunSum(chrom) ==
    LET runs == RunsOf(chrom) IN
    SumSeq([k \in 1..Len(runs.starts) |->
                (runs.ends[k] - runs.starts[k]) * runs.values[k].num])

FragmentSum(chrom) ==
    LET rows == RowsOn(chrom) IN
    IF cut_sites THEN 2 * Len(rows)
    ELSE SumSeq([i \in 1..Len(rows) |-> rows[i].End - rows[i].Start])

Unscaled == ~normalize /\ RatEq(scaling_factor, One)

WithinChromosome(chrom) ==
    \A i \in 1..Len(fragments_df) :
        fragments_df[i].Chromosome = chrom =>
            /\ 0 <= fragments_df[i].Start
            /\ fragments_df[i].Start < fragments_df[i].End
            /\ fragments_df[i].End <= chrom_sizes(chrom)

\* Every row on chrom is a well-formed fragment: 0 <= Start < End.
WellFormed(chrom) ==
    \A i \in 1..Len(fragments_df) :
        fragments_df[i].Chromosome = chrom =>
            0 <= fragments_df[i].Start /\ fragments_df[i].Start < fragments_df[i].End

MaxArrayLen == 4
\* Largest value in such an array.
MaxDepthValue == 2

DepthValues == 0..MaxDepthValue

CollapseInit ==
    /\ depth_array \in SeqsUpTo(DepthValues, MaxArrayLen)
    /\ collapse_result = <<>>
    /\ collapse_pc = "call"

\* The call.  On an array of length 0 the function, compiled without bounds
\* checks, writes idx[1] past the end of the one-element idx and reads X[0]
\* past the end of X: it returns idx = [0], one value read from outside the
\* array and no length (idx[1:2] is empty), or the process dies.
Collapse ==
    /\ collapse_pc = "call"
    /\ IF Len(depth_array) = 0
       THEN \/ \E garbage \in DepthValues :
                 /\ collapse_result' = [idx |-> <<0>>, values |-> <<garbage>>, lengths |-> <<>>]
                 /\ collapse_pc' = "returned"
            \/ /\ collapse_result' = collapse_result
               /\ collapse_pc' = "crashed"
       ELSE /\ collapse_result' = collapse_consecutive_values(depth_array)
            /\ collapse_pc' = "returned"
    /\ UNCHANGED <<depth_array, bw_vars, read_vars, cmd_vars, sizes_vars, driver_vars, cli_vars, cov_vars>>

CollapseNext == Collapse

InitCollapse == CollapseInit /\ BwIdle /\ ReadIdle /\ DriverIdle /\ CliIdle /\ CovIdle /\ CmdIdle /\ SizesIdle

\* One call of collapse_consecutive_values.
SpecCollapse == InitCollapse /\ [][CollapseNext]_vars

\* values[k] repeated lengths[k] times, in order.
RECURSIVE Repeat(_, _)
Repeat(values, lengths) ==
    IF values = <<>> \/ lengths = <<>> THEN <<>>
    ELSE [i \in 1..Head(lengths) |-> Head(values)] \o Repeat(Tail(values), Tail(lengths))

\* What the compaction promises about its result r for the array A.
CollapseCorrect(r, A) ==
    /\ Len(r.idx) = Len(r.values)
    /\ Len(r.idx) = Len(r.lengths)
    /\ Repeat(r.values, r.lengths) = A
    /\ Len(r.idx) >= 1 => r.idx[1] = 0
    /\ \A k \in 1..Len(r.idx) :
          /\ r.lengths[k] >= 1
          /\ k < Len(r.idx) =>
                /\ r.idx[k] < r.idx[k + 1]
                /\ r.idx[k] + r.lengths[k] = r.idx[k + 1]
                /\ r.values[k] # r.values[k + 1]
          /\ k = Len(r.idx) => r.idx[k] + r.lengths[k] = Len(A)

\* The promise is kept on every array that is not empty.
CollapseCorrectOnNonEmpty ==
    (collapse_pc # "call" /\ Len(depth_array) > 0) =>
        /\ collapse_pc = "returned"
        /\ CollapseCorrect(collapse_result, depth_array)

\* C11: for every array, of length 0 too, collapse_consecutive_values returns
\* idx, values and lengths of equal length, the values repeated by their
\* lengths give the array back, idx starts at 0 and increases strictly, every
\* length is at least 1, idx[k] + lengths[k] = idx[k+1], and neighbouring
\* values differ.
C11_CollapseReconstructs ==
    collapse_pc # "call" =>
        /\ collapse_pc = "returned"
        /\ CollapseCorrect(collapse_result, depth_array)


\* ------------------------------------------------ the coverage stream's runs

\* Item y holds exactly the maximal intervals of constant non-zero depth of
\* the array A of its chromosome.
MaximalRuns(y, A) ==
    LET n == Len(y.starts) IN
    /\ n >= 1
    /\ Len(y.chroms) = n /\ Len(y.ends) = n /\ Len(y.values) = n
    /\ \A k \in 1..n :
          /\ 0 <= y.starts[k]
          /\ y.starts[k] < y.ends[k]
          /\ y.ends[k] <= Len(A)
          /\ \A p \in y.starts[k]..(y.ends[k] - 1) :
                A[p + 1] > 0 /\ A[p + 1] = A[y.starts[k] + 1]
          /\ y.starts[k] > 0 => A[y.starts[k]] # A[y.starts[k] + 1]
          /\ y.ends[k] < Len(A) => A[y.ends[k] + 1] # A[y.ends[k]]
          /\ Unscaled => RatEq(y.values[k], [num |-> A[y.starts[k] + 1], den |-> 1])
    /\ \A k \in 1..(n - 1) :
          /\ y.starts[k] < y.starts[k + 1]
          /\ y.ends[k] <= y.starts[k + 1]
    /\ \A p \in 0..(Len(A) - 1) :
          A[p + 1] > 0 => \E k \in 1..n : y.starts[k] <= p /\ p < y.ends[k]

\* C12: the runs yielded for a chromosome have end > start, strictly
\* increasing starts and no overlap, and are exactly the maximal intervals of
\* constant non-zero depth: together they cover the positions of depth > 0
\* and, unscaled, each run's value is the depth at each of its positions.
C12_RunsAreMaximalIntervals ==
    \A i \in 1..Len(yielded) :
        /\ \A k \in 1..Len(yielded[i].chroms) : yielded[i].chroms[k] = yielded[i].chroms[1]
        /\ MaximalRuns(yielded[i], chrom_arrays[yielded[i].chroms[1]])

\* A chromosome yielded with two runs of different depth that touch.
C12_Witness ==
    /\ cov_pc = "done"
    /\ Unscaled
    /\ \E i \in 1..Len(yielded) : \E k \in 1..(Len(yielded[i].starts) - 1) :
          /\ yielded[i].ends[k] = yielded[i].starts[k + 1]
          /\ ~RatEq(yielded[i].values[k], yielded[i].values[k + 1])


\* C13: no yielded run has the value zero once normalization and scaling
\* are applied, whatever normalize and scaling_factor are (0 included);
\* stated for well-formed fragments.
C13_NoZeroValue ==
    (\A chrom \in ChromNames : WellFormed(chrom)) =>
        \A i \in 1..Len(yielded) : \A k \in 1..Len(yielded[i].values) :
            yielded[i].values[k].num # 0


\* The generator consumed to its end: the consumer keeps asking for the next
\* item until the generator is exhausted.
SpecCovFair == InitCov /\ [][CovNext]_vars /\ WF_vars(CovNext)

YieldedChroms == [i \in 1..Len(yielded) |-> yielded[i].chroms[1]]

HasDepth(chrom) == \E p \in 1..chrom_sizes(chrom) : chrom_arrays[chrom][p] > 0

\* At most one item per chromosome, in the order of chromsizes, and at the
\* end exactly the chromosomes with some depth.
YieldOrder ==
    /\ \A i \in 1..Len(yielded) : YieldedChroms[i] \in ChromNames
    /\ \A i \in 1..(Len(yielded) - 1) :
          ChromRank(YieldedChroms[i]) < ChromRank(YieldedChroms[i + 1])
    /\ cov_pc = "done" =>
          /\ Range(YieldedChroms) = {chrom \in ChromNames : HasDepth(chrom)}
          /\ \A chrom \in ChromNames : RowsOn(chrom) = <<>> => chrom \notin Range(YieldedChroms)
          /\ fragments_df = <<>> => yielded = <<>>

\* C14: the stream yields at most one item per chromosome, in the order of
\* chromsizes, exactly for the chromosomes of chromsizes with depth > 0
\* somewhere, and then ends; a chromosome without fragments, or one that is
\* not in chromsizes, yields nothing, and an empty input yields no item.
C14_YieldsInOrderAndTerminates == []YieldOrder /\ <>(cov_pc = "done")

\* The stream ended after it yielded chr2 only, for an input that also has a
\* row on a chromosome missing from chromsizes.
C14_Witness ==
    /\ cov_pc = "done"
    /\ YieldedChroms = <<"chr2">>
    /\ RowsOn("chrX") # <<>>
    /\ RowsOn("chr1") = <<>>


\* N: the rows on the chromosomes of chromsizes.
KeptFragments == Len(SelectSeq(fragments_df, LAMBDA r : r.Chromosome \in ChromNames))

\* The depth under run k of item y.
DepthUnder(y, k) == chrom_arrays[y.chroms[1]][y.starts[k] + 1]

\* C15: with normalize the value of every yielded run is
\* depth * 1_000_000 / N * scaling_factor, N the number of rows on the
\* chromosomes of chromsizes (fragments, also with cut_sites); without
\* normalize it is depth * scaling_factor; with N = 0 nothing is yielded and
\* nothing is divided by zero.
C15_NormalizedValues ==
    /\ KeptFragments = 0 => yielded = <<>>
    /\ \A i \in 1..Len(yielded) : \A k \in 1..Len(yielded[i].values) :
          /\ yielded[i].values[k].den # 0
          /\ normalize =>
                RatEq(yielded[i].values[k],
                      [num |-> DepthUnder(yielded[i], k) * 1000000 * scaling_factor.num,
                       den |-> KeptFragments * scaling_factor.den])
          /\ ~normalize =>
                RatEq(yielded[i].values[k],
                      [num |-> DepthUnder(yielded[i], k) * scaling_factor.num,
                       den |-> scaling_factor.den])

\* A normalized run of depth 2 under cut_sites, scaled by 2, from one kept
\* fragment and one on a chromosome that chromsizes does not list.
C15_Witness ==
    /\ cov_pc = "done"
    /\ normalize
    /\ cut_sites
    /\ scaling_factor = [num |-> 2, den |-> 1]
    /\ RowsOn("chrX") # <<>>
    /\ KeptFragments = 1
    /\ \E i \in 1..Len(yielded) : \E k \in 1..Len(yielded[i].values) :
          /\ DepthUnder(yielded[i], k) = 2
          /\ RatEq(yielded[i].values[k], [num |-> 4000000, den |-> 1])


\* A row on a chromosome of chromsizes that breaks the fragment invariants.
InvalidRows ==
    {i \in 1..Len(fragments_df) :
        /\ fragments_df[i].Chromosome \in ChromNames
        /\ (fragments_df[i].Start < 0 \/ fragments_df[i].End = fragments_df[i].Start)}

\* C16: a fragment with Start < 0 or End = Start on a chromosome of
\* chromsizes makes the computation fail: it never gets past the depth loop,
\* the fragment adds no depth and is not counted in n_fragments.
C16_InvalidFragmentRejected ==
    InvalidRows # {} =>
        /\ cov_pc \notin {"compact", "done"}
        /\ yielded = <<>>
        /\ n_fragments = 0


\* ---------------------------------------------------------------------------
\* fragments_to_bw and its two adapters.  What an adapter hands to its writer
\* library is logged: whether the file was opened, the header, the entries.
\* fragments_to_bw is called twice on the same arguments, with two writer
\* names, so that the two logs can be compared.
\* ---------------------------------------------------------------------------

WriterNames == {"pybigwig", "PyBigWig", "pybigtools", "PYBIGTOOLS", "bigwig"}

\* str.lower
Lower(name) ==
    CASE name = "PyBigWig"   -> "pybigwig"
      [] name = "PYBIGTOOLS" -> "pybigtools"
      [] OTHER               -> name

AdapterOf_default(bigwig_writer) ==
    IF Lower(bigwig_writer) = "pybigtools" THEN "pybigtools" ELSE "pybigwig"

\* The branch fragments_to_bw takes.
AdapterOf(bigwig_writer) ==
    IF Lower(bigwig_writer) = "pybigwig" THEN "pybigwig"
    ELSE IF Lower(bigwig_writer) = "pybigtools" THEN "pybigtools"
    ELSE "none"

\* Fragments within their chromosome, and one on a chromosome that
\* chromsizes does not list.
BwFragmentsDfs ==
    {df \in FragmentsDfs :
        \A i \in 1..Len(df) :
            /\ 0 <= df[i].Start
            /\ df[i].Start < df[i].End
            /\ df[i].Chromosome \in ChromNames => df[i].End <= chrom_sizes(df[i].Chromosome)}

WriterPairs ==
    {pair \in WriterNames \X {"pybigwig", "pybigtools", "bigwig"} : Lower(pair[1]) # pair[2]}

cov_work == <<chrom_arrays, n_fragments, per_chrom_fragments_dfs, depth_i,
              rpm_scaling_factor, compact_i>>

cov_inputs == <<fragments_df, normalize, scaling_factor, cut_sites>>

BwInit ==
    /\ bigwig_writers \in WriterPairs
    /\ bw_call = 1
    /\ bw_pc = "call"
    /\ bw_opened = FALSE
    /\ bw_header = <<>>
    /\ bw_entries = <<>>
    /\ bw_consumed = 0
    /\ bw_offset = 0
    /\ bw_log = <<>>
    /\ fragments_df \in BwFragmentsDfs
    /\ normalize \in BOOLEAN
    /\ scaling_factor \in ScalingFactors
    /\ cut_sites \in BOOLEAN
    /\ cov_pc = "idle"
    /\ chrom_arrays = <<>>
    /\ n_fragments = 0
    /\ per_chrom_fragments_dfs = <<>>
    /\ depth_i = 0
    /\ rpm_scaling_factor = One
    /\ compact_i = 0
    /\ yielded = <<>>

\* fragments_to_bw: choose the adapter by the lower-cased name, or raise.
FragmentsToBw ==
    /\ bw_pc = "call"
    /\ bw_pc' = IF AdapterOf(bigwig_writers[bw_call]) = "none" THEN "raised"
                ELSE AdapterOf(bigwig_writers[bw_call])
    /\ UNCHANGED <<bigwig_writers, bw_call, bw_opened, bw_header, bw_entries,
                   bw_consumed, bw_offset, bw_log, collapse_vars, read_vars, cmd_vars, sizes_vars,
                   driver_vars, cli_vars, cov_vars>>

\* fragments_to_bw_with_pybigwig up to its loop: open the file, add the
\* header, create the generator.
PybigwigOpen ==
    /\ bw_pc = "pybigwig"
    /\ bw_opened' = TRUE
    /\ bw_header' = [i \in 1..Len(chromsizes) |-> <<chromsizes[i].chrom, chromsizes[i].size>>]
    /\ cov_pc' = "start"
    /\ yielded' = <<>>
    /\ bw_consumed' = 0
    /\ bw_pc' = "pybigwig_loop"
    /\ UNCHANGED <<bigwig_writers, bw_call, bw_entries, bw_offset, bw_log,
                   collapse_vars, read_vars, cmd_vars, sizes_vars, cov_inputs, cov_work, driver_vars, cli_vars>>

\* One iteration of its loop: the next item goes to addEntries as a batch.
PybigwigAddEntries ==
    /\ bw_pc = "pybigwig_loop"
    /\ bw_consumed < Len(yielded)
    /\ bw_entries' = Append(bw_entries, yielded[bw_consumed + 1])
    /\ bw_consumed' = bw_consumed + 1
    /\ UNCHANGED <<bigwig_writers, bw_call, bw_pc, bw_opened, bw_header, bw_offset,
                   bw_log, collapse_vars, read_vars, cmd_vars, sizes_vars, driver_vars, cli_vars, cov_vars>>

\* The generator is exhausted: the with block closes the file.
PybigwigClose ==
    /\ bw_pc = "pybigwig_loop"
    /\ cov_pc = "done"
    /\ bw_consumed = Len(yielded)
    /\ bw_pc' = "returned"
    /\ UNCHANGED <<bigwig_writers, bw_call, bw_opened, bw_header, bw_entries,
                   bw_consumed, bw_offset, bw_log, collapse_vars, read_vars, cmd_vars, sizes_vars,
                   driver_vars, cli_vars, cov_vars>>


ItemTuples_swapped(y) ==
    [k \in 1..Len(y.starts) |->
        [chrom |-> y.chroms[1], start |-> y.ends[k], end |-> y.starts[k], value |-> y.values[k]]]

\* chrom_start_end_value_iter on one item: chroms[0] with each element of
\* zip(starts.tolist(), ends.tolist(), values.tolist()).
ItemTuples(y) ==
    [k \in 1..Len(y.starts) |->
        [chrom |-> y.chroms[1], start |-> y.starts[k], end |-> y.ends[k], value |-> y.values[k]]]

\* fragments_to_bw_with_pybigtools up to the writer's first request: create
\* the generator and the tuple iterator, open the file, and hand the
\* chromosome sizes and the iterator to write.
PybigtoolsOpen ==
    /\ bw_pc = "pybigtools"
    /\ cov_pc' = "start"
    /\ yielded' = <<>>
    /\ bw_opened' = TRUE
    /\ bw_header' = [i \in 1..Len(chromsizes) |-> <<chromsizes[i].chrom, chromsizes[i].size>>]
    /\ bw_consumed' = 0
    /\ bw_offset' = 0
    /\ bw_pc' = "pybigtools_write"
    /\ UNCHANGED <<bigwig_writers, bw_call, bw_entries, bw_log, collapse_vars, read_vars, cmd_vars, sizes_vars,
                   cov_inputs, cov_work, driver_vars, cli_vars>>

\* The writer takes the next tuple from chrom_start_end_value_iter.
PybigtoolsYield ==
    /\ bw_pc = "pybigtools_write"
    /\ bw_consumed < Len(yielded)
    /\ LET tuples == ItemTuples(yielded[bw_consumed + 1]) IN
       /\ bw_entries' = Append(bw_entries, tuples[bw_offset + 1])
       /\ IF bw_offset + 1 = Len(tuples)
          THEN bw_consumed' = bw_consumed + 1 /\ bw_offset' = 0
          ELSE bw_consumed' = bw_consumed /\ bw_offset' = bw_offset + 1
    /\ UNCHANGED <<bigwig_writers, bw_call, bw_pc, bw_opened, bw_header, bw_log,
                   collapse_vars, read_vars, cmd_vars, sizes_vars, driver_vars, cli_vars, cov_vars>>

\* The iterator is exhausted: write returns.
PybigtoolsDone ==
    /\ bw_pc = "pybigtools_write"
    /\ cov_pc = "done"
    /\ bw_consumed = Len(yielded)
    /\ bw_pc' = "returned"
    /\ UNCHANGED <<bigwig_writers, bw_call, bw_opened, bw_header, bw_entries,
                   bw_consumed, bw_offset, bw_log, collapse_vars, read_vars, cmd_vars, sizes_vars,
                   driver_vars, cli_vars, cov_vars>>

\* The caller notes what the call did and calls again with the next name.
BwNextCall ==
    /\ bw_pc \in {"returned", "raised"}
    /\ bw_log' = Append(bw_log,
            [ bigwig_writer |-> bigwig_writers[bw_call], outcome |-> bw_pc,
              opened |-> bw_opened, started |-> cov_pc # "idle",
              header |-> bw_header, entries |-> bw_entries ])
    /\ bw_pc' = IF bw_call < Len(bigwig_writers) THEN "call" ELSE "end"
    /\ bw_call' = bw_call + 1
    /\ bw_opened' = FALSE
    /\ bw_header' = <<>>
    /\ bw_entries' = <<>>
    /\ bw_consumed' = 0
    /\ bw_offset' = 0
    /\ cov_pc' = "idle"
    /\ chrom_arrays' = <<>>
    /\ n_fragments' = 0
    /\ per_chrom_fragments_dfs' = <<>>
    /\ depth_i' = 0
    /\ rpm_scaling_factor' = One
    /\ compact_i' = 0
    /\ yielded' = <<>>
    /\ UNCHANGED <<bigwig_writers, collapse_vars, read_vars, cmd_vars, sizes_vars, cov_inputs, driver_vars, cli_vars>>

BwNext ==
    \/ FragmentsToBw
    \/ PybigwigOpen
    \/ PybigwigAddEntries
    \/ PybigwigClose
    \/ PybigtoolsOpen
    \/ PybigtoolsYield
    \/ PybigtoolsDone
    \/ BwNextCall
    \/ CovAlloc
    \/ CovDepth
    \/ CovRpm
    \/ CovCompact
    \/ CovStop

InitBw == BwInit /\ CollapseIdle /\ ReadIdle /\ DriverIdle /\ CliIdle /\ CmdIdle /\ SizesIdle

\* Two calls of fragments_to_bw.
SpecBw == InitBw /\ [][BwNext]_vars


\* The two supported writer names, in any case.
PybigwigNames == {"pybigwig", "PyBigWig"}

PybigtoolsNames == {"pybigtools", "PYBIGTOOLS"}

Unsupported(name) == name \notin PybigwigNames \cup PybigtoolsNames

\* C17: a call of fragments_to_bw with a writer name that is neither
\* supported name, in any case, raises before any I/O: no file is opened, no
\* header written, and the coverage computation is not started.
C17_UnknownWriterFailsBeforeIO ==
    /\ (bw_call \in 1..Len(bigwig_writers) /\ Unsupported(bigwig_writers[bw_call])) =>
          /\ bw_pc \in {"call", "raised"}
          /\ ~bw_opened
          /\ bw_header = <<>>
          /\ bw_entries = <<>>
          /\ cov_pc = "idle"
    /\ \A i \in 1..Len(bw_log) :
          Unsupported(bw_log[i].bigwig_writer) =>
              /\ bw_log[i].outcome = "raised"
              /\ ~bw_log[i].opened
              /\ ~bw_log[i].started
              /\ bw_log[i].header = <<>>
              /\ bw_log[i].entries = <<>>

\* The second call raised on the unknown name after the first one wrote
\* entries.
C17_Witness ==
    /\ bw_pc = "raised"
    /\ bw_call = 2
    /\ Unsupported(bigwig_writers[2])
    /\ bw_log[1].entries # <<>>

\* The entries of a batch handed to addEntries, one by one.
BatchEntries(batch) ==
    [k \in 1..Len(batch.starts) |->
        [chrom |-> batch.chroms[k], start |-> batch.starts[k],
         end |-> batch.ends[k], value |-> batch.values[k]]]

ChromSizesHeader == [i \in 1..Len(chromsizes) |-> <<chromsizes[i].chrom, chromsizes[i].size>>]

\* C18: on the same arguments the two adapters hand the same data to their
\* writer: the chromosome sizes in their order as header, and the same
\* entries in the same order, the batch adapter's batches concatenated; the
\* batch adapter writes the header before its first batch.
C18_AdaptersHandSameData ==
    /\ \A i, j \in 1..Len(bw_log) :
          (bw_log[i].bigwig_writer \in PybigwigNames /\ bw_log[j].bigwig_writer \in PybigtoolsNames) =>
              /\ bw_log[i].outcome = "returned" /\ bw_log[j].outcome = "returned"
              /\ bw_log[i].header = ChromSizesHeader
              /\ bw_log[j].header = ChromSizesHeader
              /\ Flatten([b \in 1..Len(bw_log[i].entries) |-> BatchEntries(bw_log[i].entries[b])])
                    = bw_log[j].entries
    /\ bw_entries # <<>> => bw_header = ChromSizesHeader

\* Both adapters ran, on an input with runs on both chromosomes and two runs
\* on one of them.
C18_Witness ==
    /\ bw_pc = "end"
    /\ bw_log[1].bigwig_writer \in PybigwigNames
    /\ bw_log[2].bigwig_writer \in PybigtoolsNames
    /\ Len(bw_log[1].entries) = 2
    /\ Len(bw_log[2].entries) = 3


\* ---------------------------------------------------------------------------
\* read_fragments_to_polars_df on a fragment file.  A line is a record of its
\* fields; a field the file has no column for is the empty string, and the
\* score is kept as the text of its field.
\* ---------------------------------------------------------------------------

\* Data lines of the file.
MaxLines == 3

ScoreTokens == {".", "1", "2"}

ParseInt(token) == CASE token = "1" -> 1 [] token = "2" -> 2

BedKeys ==
    { [Chromosome |-> "chr1", Start |-> 0, End |-> 1, Name |-> "BC1"],
      [Chromosome |-> "chr1", Start |-> 0, End |-> 1, Name |-> "BC2"],
      [Chromosome |-> "chr1", Start |-> 1, End |-> 2, Name |-> "BC1"] }

\* The lines a file of the given number of columns can hold.
BedLinePool(columns) ==
    IF columns = 5
    THEN {[Chromosome |-> k.Chromosome, Start |-> k.Start, End |-> k.End, Name |-> k.Name,
           Score |-> t] : k \in BedKeys, t \in ScoreTokens}
    ELSE IF columns = 4
    THEN {[Chromosome |-> k.Chromosome, Start |-> k.Start, End |-> k.End, Name |-> k.Name,
           Score |-> ""] : k \in BedKeys}
    ELSE {[Chromosome |-> k.Chromosome, Start |-> k.Start, End |-> k.End, Name |-> "",
           Score |-> ""] : k \in BedKeys}

KeyOf(line) ==
    [Chromosome |-> line.Chromosome, Start |-> line.Start, End |-> line.End, Name |-> line.Name]

bed_column_names == <<"Chromosome", "Start", "End", "Name", "Score">>

ReadInit ==
    /\ bed_columns \in 3..5
    /\ bed_lines \in SeqsUpTo(BedLinePool(bed_columns), MaxLines)
    /\ read_pc = "call"
    /\ bed_df_pl = <<>>
    /\ fragments_df_pl = <<>>

\* read_bed_to_polars_df with min_column_count = 4: the column count is that
\* of the first data line; the reader infers an integer Score column when
\* every field is a number and a string column otherwise.
ReadBedToPolarsDf ==
    /\ read_pc = "call"
    /\ LET column_count == IF bed_lines = <<>> THEN 0 ELSE bed_columns IN
       IF column_count < 4
       THEN /\ read_pc' = "raised"
            /\ bed_df_pl' = bed_df_pl
       ELSE /\ read_pc' = "read"
            /\ bed_df_pl' =
                  [ columns |-> Range(SubSeq(bed_column_names, 1, column_count)),
                    score   |-> IF column_count < 5 THEN "absent"
                                ELSE IF \A i \in 1..Len(bed_lines) : bed_lines[i].Score # "."
                                THEN "Int64" ELSE "Utf8",
                    rows    |-> bed_lines ]
    /\ UNCHANGED <<bed_lines, bed_columns, fragments_df_pl, collapse_vars, bw_vars, cmd_vars, sizes_vars,
                   driver_vars, cli_vars, cov_vars>>

\* No Score column, or a string one: one row per (Chromosome, Start, End,
\* Name) with the number of its lines as Score.  group_by returns the groups
\* in no particular order.
GroupByLen ==
    /\ read_pc = "read"
    /\ "Score" \notin bed_df_pl.columns \/ bed_df_pl.score = "Utf8"
    /\ LET groups == {KeyOf(bed_df_pl.rows[i]) : i \in 1..Len(bed_df_pl.rows)}
           len(k) == Cardinality({i \in 1..Len(bed_df_pl.rows) : KeyOf(bed_df_pl.rows[i]) = k}) IN
       \E order \in [1..Cardinality(groups) -> groups] :
          /\ \A i, j \in DOMAIN order : i # j => order[i] # order[j]
          /\ fragments_df_pl' =
                [i \in DOMAIN order |->
                    [Chromosome |-> order[i].Chromosome, Start |-> order[i].Start,
                     End |-> order[i].End, Name |-> order[i].Name, Score |-> len(order[i])]]
    /\ read_pc' = "returned"
    /\ UNCHANGED <<bed_lines, bed_columns, bed_df_pl, collapse_vars, bw_vars, cmd_vars, sizes_vars,
                   driver_vars, cli_vars, cov_vars>>

\* A numeric Score column: every row is kept, its Score cast to Int32.
CastScore ==
    /\ read_pc = "read"
    /\ ~("Score" \notin bed_df_pl.columns \/ bed_df_pl.score = "Utf8")
    /\ fragments_df_pl' =
          [i \in 1..Len(bed_df_pl.rows) |->
              [Chromosome |-> bed_df_pl.rows[i].Chromosome, Start |-> bed_df_pl.rows[i].Start,
               End |-> bed_df_pl.rows[i].End, Name |-> bed_df_pl.rows[i].Name,
               Score |-> ParseInt(bed_df_pl.rows[i].Score)]]
    /\ read_pc' = "returned"
    /\ UNCHANGED <<bed_lines, bed_columns, bed_df_pl, collapse_vars, bw_vars, cmd_vars, sizes_vars,
                   driver_vars, cli_vars, cov_vars>>

ReadNext ==
    \/ ReadBedToPolarsDf
    \/ GroupByLen
    \/ CastScore

InitRead == ReadInit /\ CollapseIdle /\ BwIdle /\ DriverIdle /\ CliIdle /\ CovIdle /\ CmdIdle /\ SizesIdle

\* One call of read_fragments_to_polars_df.
SpecRead == InitRead /\ [][ReadNext]_vars

\* The count a source line stands for.
LineCount(line) == IF line.Score \in {"", "."} THEN 1 ELSE ParseInt(line.Score)

\* C19: for a file with at least 4 columns the records returned hold each
\* (chrom, start, end, barcode) of the file exactly once, with the sum of the
\* counts of its lines as count, a '.' or missing count standing for 1,
\* whether the counts are absent, all '.', all numbers or a mix.
C19_ReadCollapsesDuplicates ==
    (read_pc \notin {"call", "read"} /\ bed_columns >= 4 /\ bed_lines # <<>>) =>
        /\ read_pc = "returned"
        /\ \A i \in 1..Len(bed_lines) :
              Cardinality({j \in 1..Len(fragments_df_pl) :
                              KeyOf(fragments_df_pl[j]) = KeyOf(bed_lines[i])}) = 1
        /\ \A j \in 1..Len(fragments_df_pl) :
              /\ \E i \in 1..Len(bed_lines) : KeyOf(bed_lines[i]) = KeyOf(fragments_df_pl[j])
              /\ fragments_df_pl[j].Score =
                    SumSeq([i \in 1..Len(bed_lines) |->
                               IF KeyOf(bed_lines[i]) = KeyOf(fragments_df_pl[j])
                               THEN LineCount(bed_lines[i]) ELSE 0])


\* ---------------------------------------------------------------------------
\* The command functions of cli/commands.py, called with parsed arguments on
\* a file system where some of the input files may be missing.
\* ---------------------------------------------------------------------------

CommandNames == {"bigwig", "split"}

\* The arguments of a command that name an input file checked by the command.
CheckedArguments(name) ==
    IF name = "bigwig"
    THEN <<"chrom_sizes_filename", "fragments_filename">>
    ELSE <<"path_to_sample_to_fragment_definition",
           "path_to_cell_type_to_cell_barcode_definition",
           "chrom_sizes_filename">>

\* Records per fragment file and annotation entries of a split command.
MaxCmdFrags == 1

MaxCmdTypes == 1

CmdFragmentChoices == {t \in FragmentChoices : Len(t) <= MaxCmdFrags}

CmdAnnotationChoices == {e \in AnnotationChoices : Len(e) <= MaxCmdTypes}

\* The fragment files listed in the sample table.
ListedFragmentFiles == {FragmentFilePath(s) : s \in Range(Samples)}

CmdInit ==
    /\ cmd \in CommandNames
    /\ existing \in SUBSET Range(CheckedArguments(cmd))
    /\ cmd_pc = "call"
    /\ cmd_error = "none"
    /\ inputs_read = {}
    /\ bigwig_written = FALSE
    /\ sample_to_fragment_file = <<>>
    /\ sample_to_cell_type_to_cell_barcodes = <<>>
    /\ n_cpu = 1
    /\ clear_temp_folder = FALSE
    /\ pc = "idle"
    /\ error = NoError
    /\ IF cmd = "split"
       THEN /\ dirs = {path_to_input_folder}
            /\ \E tagged \in CmdFragmentChoices, present \in SUBSET ListedFragmentFiles :
                  files = [p \in present |->
                              RecordsOf(tagged, (CHOOSE s \in Range(Samples) :
                                                    FragmentFilePath(s) = p))]
       ELSE /\ dirs = {}
            /\ files = <<>>
    /\ split_state = <<>>
    /\ split_args = <<>>
    /\ cell_type_to_fragment_files = <<>>
    /\ merge_state = <<>>
    /\ merge_args = <<>>
    /\ removed = <<>>
    /\ written = {}

\* The first argument of the list whose file does not exist, 0 if all exist.
FirstMissing(arguments) ==
    IF \A i \in 1..Len(arguments) : arguments[i] \in existing
    THEN 0
    ELSE CHOOSE i \in 1..Len(arguments) :
            /\ arguments[i] \notin existing
            /\ \A j \in 1..(i - 1) : arguments[j] \in existing

\* command_fragment_to_bigwigs, lines 9-15: the two os.path.exists checks.
CommandBigwigCheck ==
    /\ cmd = "bigwig"
    /\ cmd_pc = "call"
    /\ IF FirstMissing(CheckedArguments("bigwig")) # 0
       THEN /\ cmd_pc' = "raised"
            /\ cmd_error' = "FileNotFoundError"
       ELSE /\ cmd_pc' = "checked"
            /\ cmd_error' = cmd_error
    /\ UNCHANGED <<cmd, existing, inputs_read, bigwig_written, driver_vars, cli_vars, cov_vars,
                   collapse_vars, bw_vars, read_vars, sizes_vars>>

\* command_fragment_to_bigwigs, lines 26-45: the chromosome sizes and the
\* fragments are read and fragments_to_bw is called; it writes the file or
\* raises (reader and writers are modelled in their own sections).
CommandBigwigRun ==
    /\ cmd = "bigwig"
    /\ cmd_pc = "checked"
    /\ inputs_read' = {"chrom_sizes_filename", "fragments_filename"}
    /\ \E raised \in BOOLEAN :
          IF raised
          THEN /\ cmd_pc' = "raised"
               /\ cmd_error' = "ValueError"
               /\ bigwig_written' = bigwig_written
          ELSE /\ cmd_pc' = "returned"
               /\ cmd_error' = cmd_error
               /\ bigwig_written' = TRUE
    /\ UNCHANGED <<cmd, existing, driver_vars, cli_vars, cov_vars,
                   collapse_vars, bw_vars, read_vars, sizes_vars>>

\* command_split_fragments_by_cell_type, lines 86-100: the three
\* os.path.exists checks.
CommandSplitCheck ==
    /\ cmd = "split"
    /\ cmd_pc = "call"
    /\ IF FirstMissing(CheckedArguments("split")) # 0
       THEN /\ cmd_pc' = "raised"
            /\ cmd_error' = "FileNotFoundError"
       ELSE /\ cmd_pc' = "checked"
            /\ cmd_error' = cmd_error
    /\ UNCHANGED <<cmd, existing, inputs_read, bigwig_written, driver_vars, cli_vars, cov_vars,
                   collapse_vars, bw_vars, read_vars, sizes_vars>>

\* Lines 102-121: the first line of each table is read and its column names
\* are checked.
CommandSplitHeaders ==
    /\ cmd = "split"
    /\ cmd_pc = "checked"
    /\ inputs_read' = inputs_read \cup {"path_to_sample_to_fragment_definition",
                                        "path_to_cell_type_to_cell_barcode_definition"}
    /\ \E columns_present \in BOOLEAN :
          IF columns_present
          THEN /\ cmd_pc' = "headers"
               /\ cmd_error' = cmd_error
          ELSE /\ cmd_pc' = "raised"
               /\ cmd_error' = "KeyError"
    /\ UNCHANGED <<cmd, existing, bigwig_written, driver_vars, cli_vars, cov_vars,
                   collapse_vars, bw_vars, read_vars, sizes_vars>>

\* Lines 129-195: the two tables and the chromosome sizes are read into
\* dictionaries, a duplicate raising ValueError, and
\* split_fragment_files_by_cell_type is called with them.
CommandSplitParse ==
    /\ cmd = "split"
    /\ cmd_pc = "headers"
    /\ inputs_read' = inputs_read \cup {"chrom_sizes_filename"}
    /\ \E duplicates \in BOOLEAN :
          IF duplicates
          THEN /\ cmd_pc' = "raised"
               /\ cmd_error' = "ValueError"
               /\ UNCHANGED <<sample_to_fragment_file, sample_to_cell_type_to_cell_barcodes,
                              split_state, split_args, n_cpu, clear_temp_folder, pc>>
          ELSE /\ cmd_pc' = "driver"
               /\ cmd_error' = cmd_error
               /\ sample_to_fragment_file' =
                     [i \in 1..Len(Samples) |->
                         [sample |-> Samples[i], path |-> FragmentFilePath(Samples[i])]]
               /\ \E keys \in {Samples, SubSeq(Samples, 1, 1)}, entries \in CmdAnnotationChoices :
                     /\ \A i \in 1..Len(entries) : entries[i].sample \in Range(keys)
                     /\ sample_to_cell_type_to_cell_barcodes' =
                           [i \in 1..Len(keys) |->
                               [sample |-> keys[i], cell_types |-> CellTypesOf(entries, keys[i])]]
                     /\ split_state' = [s \in Range(keys) |-> "pending"]
                     /\ split_args' = [s \in Range(keys) |-> <<>>]
               /\ n_cpu' \in 1..MaxCpu
               /\ clear_temp_folder' \in BOOLEAN
               /\ pc' = "start"
    /\ UNCHANGED <<cmd, existing, bigwig_written, error, dirs, files,
                   cell_type_to_fragment_files, merge_state, merge_args, removed, written,
                   cli_vars, cov_vars, collapse_vars, bw_vars, read_vars, sizes_vars>>

\* Line 186: split_fragment_files_by_cell_type returns or raises, and so
\* does the command.
CommandSplitEnd ==
    /\ cmd = "split"
    /\ cmd_pc = "driver"
    /\ pc \in {"done", "failed"}
    /\ cmd_pc' = IF pc = "done" THEN "returned" ELSE "raised"
    /\ cmd_error' = error.kind
    /\ UNCHANGED <<cmd, existing, inputs_read, bigwig_written, driver_vars, cli_vars, cov_vars,
                   collapse_vars, bw_vars, read_vars, sizes_vars>>

CmdNext ==
    \/ CommandBigwigCheck
    \/ CommandBigwigRun
    \/ CommandSplitCheck
    \/ CommandSplitHeaders
    \/ CommandSplitParse
    \/ DriverNext
    \/ CommandSplitEnd

InitCmd == CmdInit /\ CliIdle /\ CovIdle /\ CollapseIdle /\ BwIdle /\ ReadIdle /\ SizesIdle

\* One call of a command on a file system with missing inputs.
SpecCmd == InitCmd /\ [][CmdNext]_vars

\* A required input file of the command does not exist.
InputMissing ==
    \/ \E i \in 1..Len(CheckedArguments(cmd)) : CheckedArguments(cmd)[i] \notin existing
    \/ cmd = "split" /\ \E p \in ListedFragmentFiles : p \notin DOMAIN files

\* C20: when a required input file of a command does not exist (for split
\* this includes a fragment file listed in the sample table), the command
\* fails with a file-not-found error before any work begins: no input is
\* read, no temp, output or sample directory is created and no worker task is
\* started.
C20_MissingInputFailsBeforeWork ==
    (cmd \in CommandNames /\ InputMissing) =>
        /\ inputs_read = {}
        /\ ~bigwig_written
        /\ dirs \subseteq {path_to_input_folder}
        /\ \A s \in DOMAIN split_state : split_state[s] = "pending"
        /\ cmd_pc \in {"returned", "raised"} =>
              (cmd_pc = "raised" /\ cmd_error = "FileNotFoundError")


\* ---------------------------------------------------------------------------
\* The loading of the chromosome sizes file: get_chromosome_sizes for the
\* bigwig command, lines 171-184 of commands.py for the split command.  A
\* mapping is a Python dict: the sequence of its items in insertion order.
\* ---------------------------------------------------------------------------

\* Lines of the chromosome sizes file.
MaxSizesLines == 3

SizesLinePool == [chrom : {"chr1", "chr2"}, size : 1..2]

\* d[chrom] = size on a dict: a new key goes to the end, an old key keeps its
\* place and takes the new value.
DictSet(d, chrom, size) ==
    IF \E i \in 1..Len(d) : d[i].chrom = chrom
    THEN [i \in 1..Len(d) |-> IF d[i].chrom = chrom THEN [chrom |-> chrom, size |-> size]
                              ELSE d[i]]
    ELSE Append(d, [chrom |-> chrom, size |-> size])

\* Lines 17-30: every line is assigned into the dict.
RECURSIVE get_chromosome_sizes_from(_, _)
get_chromosome_sizes_from(lines, d) ==
    IF lines = <<>> THEN d
    ELSE get_chromosome_sizes_from(Tail(lines), DictSet(d, Head(lines).chrom, Head(lines).size))

get_chromosome_sizes(lines) == get_chromosome_sizes_from(lines, <<>>)

\* The same chromosome name on two lines.
DuplicateChromosome(lines) ==
    \E i, j \in 1..Len(lines) : i # j /\ lines[i].chrom = lines[j].chrom

SizesInit ==
    /\ sizes_cmd \in CommandNames
    /\ sizes_lines \in SeqsUpTo(SizesLinePool, MaxSizesLines)
    /\ sizes_pc = "call"
    /\ sizes_error = "none"
    /\ chrom_sizes_dict = <<>>

\* commands.py line 26: the bigwig command loads the file.
BigwigGetChromosomeSizes ==
    /\ sizes_cmd = "bigwig"
    /\ sizes_pc = "call"
    /\ chrom_sizes_dict' = get_chromosome_sizes(sizes_lines)
    /\ sizes_pc' = "loaded"
    /\ UNCHANGED <<sizes_lines, sizes_cmd, sizes_error, collapse_vars, bw_vars, read_vars,
                   cmd_vars, driver_vars, cli_vars, cov_vars>>

\* commands.py lines 171-184: the split command loads the file, a chromosome
\* already in the dict raising ValueError.
SplitReadChromsizes ==
    /\ sizes_cmd = "split"
    /\ sizes_pc = "call"
    /\ IF DuplicateChromosome(sizes_lines)
       THEN /\ sizes_pc' = "raised"
            /\ sizes_error' = "ValueError"
            /\ chrom_sizes_dict' = chrom_sizes_dict
       ELSE /\ sizes_pc' = "loaded"
            /\ sizes_error' = sizes_error
            /\ chrom_sizes_dict' = get_chromosome_sizes(sizes_lines)
    /\ UNCHANGED <<sizes_lines, sizes_cmd, collapse_vars, bw_vars, read_vars,
                   cmd_vars, driver_vars, cli_vars, cov_vars>>

\* commands.py lines 36-45 and 186-195: the command hands the mapping to
\* fragments_to_bw or to split_fragment_files_by_cell_type.
SizesReachEngine ==
    /\ sizes_pc = "loaded"
    /\ sizes_pc' = "engine"
    /\ UNCHANGED <<sizes_lines, sizes_cmd, sizes_error, chrom_sizes_dict, collapse_vars,
                   bw_vars, read_vars, cmd_vars, driver_vars, cli_vars, cov_vars>>

SizesNext ==
    \/ BigwigGetChromosomeSizes
    \/ SplitReadChromsizes
    \/ SizesReachEngine

InitSizes ==
    SizesInit /\ CollapseIdle /\ BwIdle /\ ReadIdle /\ CmdIdle /\ DriverIdle /\ CliIdle /\ CovIdle

\* One loading of a chromosome sizes file.
SpecSizes == InitSizes /\ [][SizesNext]_vars

\* C21: a chromosome sizes file with the same chromosome name on two lines
\* is an error in both commands: neither command goes on with a mapping built
\* from it, and every mapping that reaches an engine has unique keys, each
\* with the size of the chromosome's single line.
C21_DuplicateChromosomeIsError ==
    /\ (sizes_pc # "call" /\ DuplicateChromosome(sizes_lines)) => sizes_pc = "raised"
    /\ sizes_pc = "engine" =>
          /\ \A i, j \in 1..Len(chrom_sizes_dict) :
                i # j => chrom_sizes_dict[i].chrom # chrom_sizes_dict[j].chrom
          /\ \A i \in 1..Len(chrom_sizes_dict) :
                /\ Cardinality({k \in 1..Len(sizes_lines) :
                                   sizes_lines[k].chrom = chrom_sizes_dict[i].chrom}) = 1
                /\ \E k \in 1..Len(sizes_lines) :
                      sizes_lines[k] = chrom_sizes_dict[i]


\* ---------------------------------------------------------------------------
\* The entry point called with a single argument.
\* ---------------------------------------------------------------------------

\* sys.argv holds the program name and exactly one argument.
SingleArgument == Len(sys_argv) = 2

\* C22: with exactly one argument (a subcommand name, '--help' or any other
\* word) main only prints a help message: no subcommand function is executed,
\* no file is read or written and main returns 0; a subcommand function is
\* only invoked when at least two arguments are given and parsing succeeded.
C22_SingleArgumentOnlyPrintsHelp ==
    /\ SingleArgument =>
          /\ called = "none"
          /\ cli_pc # "command"
          /\ DriverIdle /\ LibIdle /\ CovIdle
          /\ cli_pc = "exited" => (exit_status = 0 /\ help_printed # "none")
    /\ called # "none" =>
          /\ Len(sys_argv) >= 3
          /\ parse_args(sys_argv).outcome = "ok"
          /\ called = sys_argv[2]

\* main has returned after printing the help of the subcommand named by the
\* single argument.
C22_Witness ==
    /\ SingleArgument
    /\ sys_argv[2] = "split"
    /\ cli_pc = "exited"
    /\ help_printed = "split"
    /\ exit_status = 0


\* ---------------------------------------------------------------------------
\* The depth arrays held during a coverage computation.
\* ---------------------------------------------------------------------------

\* The chromosomes whose depth array is held in chrom_arrays.
AllocatedChroms == DOMAIN chrom_arrays

\* The positions of all depth arrays held.
AllocatedPositions ==
    SumSeq([i \in 1..Len(chromsizes) |->
               IF chromsizes[i].chrom \in AllocatedChroms
               THEN Len(chrom_arrays[chromsizes[i].chrom]) ELSE 0])

LargestChromosome ==
    CHOOSE n \in {chromsizes[i].size : i \in 1..Len(chromsizes)} :
        \A i \in 1..Len(chromsizes) : chromsizes[i].size <= n

\* C23: during a coverage computation the depth arrays are allocated and
\* released one after the other: at most one chromosome's array is allocated
\* in any state, so the allocated depth storage never exceeds the size of
\* the largest chromosome.
C23_OneDepthArrayAtATime ==
    cov_pc # "idle" =>
        /\ Cardinality(AllocatedChroms) <= 1
        /\ AllocatedPositions <= LargestChromosome


\* ---------------------------------------------------------------------------
\* The split driver: the key check, the shard lists and the cleanup.
\* ---------------------------------------------------------------------------

\* The two dictionaries do not have the same sample names.
KeysDiffer ==
    SampleKeys(sample_to_fragment_file) # SampleKeys(sample_to_cell_type_to_cell_barcodes)

\* C24: when the sample names of sample_to_fragment_file and of
\* sample_to_cell_type_to_cell_barcodes differ, the driver raises an error
\* before any effect: no temp, output or per-sample directory is created, no
\* split or merge task is started and no file is removed.
C24_KeyMismatchFailsBeforeEffects ==
    (KeysDiffer /\ pc # "idle") =>
        /\ pc \in {"start", "failed"}
        /\ pc = "failed" => error.kind = "ValueError"
        /\ dirs = {path_to_input_folder}
        /\ StartedSplits = {}
        /\ \A s \in DOMAIN split_state : split_state[s] = "pending"
        /\ StartedMerges = {}
        /\ ~MergeStarted
        /\ removed = <<>>
        /\ written = {}
        /\ DOMAIN files = InputPaths

\* The driver raised on dictionaries with different sample names.
C24_Witness ==
    /\ KeysDiffer
    /\ pc = "failed"
    /\ error.kind = "ValueError"


\* The (sample, cell type) pairs whose shard goes to the output of sanitized
\* cell type k.
ContributingPairs(k) ==
    {n \in 1..Len(ShardPairs) : _santize_string_for_filename(ShardPairs[n].cell_type) = k}

\* C25: the list of shard paths handed to the merge task of an output file
\* holds no path twice and exactly one shard per (sample, cell type) pair
\* contributing to that output, also when two cell type names of a sample have
\* the same sanitized name.
C25_MergeListHasEachShardOnce ==
    \A k \in StartedMerges :
        LET paths == merge_args[k][1].path_to_fragment_files IN
        /\ \A i, j \in 1..Len(paths) : (i # j) => paths[i] # paths[j]
        /\ Len(paths) = Cardinality(ContributingPairs(k))
        /\ Range(paths) =
              {ShardPath(ShardPairs[n].sample, k) : n \in ContributingPairs(k)}


\* A merge task returns without raising and without its output file on disk,
\* the case the check after the merge phase (lines 124-131) looks for.
MergeReturnsWithoutOutput(cell_type) ==
    /\ pc = "merge"
    /\ merge_state[cell_type] = "running"
    /\ files' = Without(files, merge_args[cell_type][1].path_to_output_file)
    /\ merge_state' = [merge_state EXCEPT ![cell_type] = "done"]
    /\ UNCHANGED <<cli_vars, cov_vars, lib_vars,
                   sample_to_fragment_file, sample_to_cell_type_to_cell_barcodes, n_cpu,
                   clear_temp_folder, pc, error, dirs, split_state, split_args,
                   cell_type_to_fragment_files, merge_args, removed, written>>

OutputLostNext ==
    \/ DriverNext
    \/ \E cell_type \in DOMAIN merge_state : MergeReturnsWithoutOutput(cell_type)

\* The split driver with merge tasks that may leave no output file.
SpecOutputLost == Init /\ [][OutputLostNext]_vars

\* Every merge task returned and the output file of some cell type is absent.
OutputAbsentAfterMerge ==
    /\ pc \in {"merge", "done", "failed"}
    /\ merge_state # <<>>
    /\ \A k \in DOMAIN merge_state : merge_state[k] = "done"
    /\ \E i \in 1..Len(cell_type_to_fragment_files) :
          CheckedOutputPath(cell_type_to_fragment_files[i].key) \notin DOMAIN files

\* C26: the driver never removes the shards of a cell type whose merged
\* output file does not exist: when an output file is absent after the merge
\* phase the run does not complete successfully and the cleanup removes no
\* shard file.
C26_NoCleanupWithoutOutput ==
    OutputAbsentAfterMerge =>
        /\ pc # "done"
        /\ removed = <<>>

====
